---- MODULE Spec2Model ----
(***************************************************************************)
(* A model of the autoflight orchestration layer: image discovery and      *)
(* loading (image_loader.py), the security limits (security.py), the       *)
(* stitching driver (stitcher.py), the output writer (output.py) and the   *)
(* pipeline controller (orthomosaic.py).                                   *)
(*                                                                         *)
(* Paths are the integers 1..MaxPaths; their integer order stands for the  *)
(* lexicographic order of Path objects.  Progress fractions are exact      *)
(* rationals <<numerator, denominator>>: every float operation the code    *)
(* applies (k / n, * 0.5) is monotone under rounding, so the order of the  *)
(* rationals is the order of the floats.                                   *)
(***************************************************************************)
EXTENDS Integers, Sequences, FiniteSets, TLC

\* Number of directory entries of the input directory.
MaxPaths == 3

\* Longest image list handed directly to stitch_images.
MaxImages == 3

----------------------------------------------------------------------------
\* Program constants

DEFAULT_MAX_FILE_SIZE == 500000000
DEFAULT_MAX_IMAGE_PIXELS == 100000000
DEFAULT_MAX_FILES == 1000
DEFAULT_MAX_WORKERS == 4
DEFAULT_QUALITY == 95
DEFAULT_PNG_COMPRESSION == 3

SUPPORTED_EXTENSIONS == {".jpg", ".jpeg", ".png", ".tif", ".tiff"}

\* str.lower() on the suffixes that occur in the model.
Lower(s) ==
    CASE s = ".JPG" -> ".jpg"
      [] s = ".PNG" -> ".png"
      [] s = ".Tif" -> ".tif"
      [] s = ".HTML" -> ".html"
      [] s = ".TXT" -> ".txt"
      [] OTHER -> s

\* SecurityLimits(max_file_size, max_image_pixels, max_files)
SecurityLimits(mfs, mip, mf) ==
    [max_file_size |-> mfs, max_image_pixels |-> mip, max_files |-> mf]

\* SecurityLimits(): the instance the module creates at import (line 45).
DefaultSecurityLimits ==
    SecurityLimits(DEFAULT_MAX_FILE_SIZE, DEFAULT_MAX_IMAGE_PIXELS, DEFAULT_MAX_FILES)

\* The attributes of the module-level instance security._default_limits.
VARIABLE default_limits

\* get_default_limits() returns the module-level instance itself.
get_default_limits == default_limits

\* Optional values: None is the empty sequence, a given value x is <<x>>.
None == <<>>
Some(x) == <<x>>

----------------------------------------------------------------------------
\* Values

NoExc == [type |-> "none", path |-> 0]
Exc(t, p) == [type |-> t, path |-> p]

\* A decoded image; src names the file it was decoded from (0: not from a file).
NoImage == [src |-> 0, width |-> 0, height |-> 0]
Image(s, w, h) == [src |-> s, width |-> w, height |-> h]

\* What a file holds; no file.
NoContent == [format |-> "none"]

\* ndarray.size == 0
IsEmptyImage(img) == img.width * img.height = 0

\* Progress fractions
Frac(n, d) == <<n, d>>
FracLeq(a, b) == a[1] * b[2] <= b[1] * a[2]
FracEq(a, b) == a[1] * b[2] = b[1] * a[2]
F_0 == Frac(0, 1)
F_1 == Frac(1, 1)

\* The callback invoked twice for one event.
Emit_Twice(evs, cb, frac, by) ==
    IF cb THEN evs \o <<[frac |-> frac, by |-> by], [frac |-> frac, by |-> by]>> ELSE evs

\* progress_callback(frac, msg) when a callback was given
Emit(evs, cb, frac, by) ==
    IF cb THEN Append(evs, [frac |-> frac, by |-> by]) ELSE evs

\* The candidate list left in descending order.
RECURSIVE sorted_reversed(_)
sorted_reversed(S) ==
    IF S = {} THEN <<>>
    ELSE LET m == CHOOSE x \in S : \A y \in S : x >= y
         IN <<m>> \o sorted_reversed(S \ {m})

\* sorted(S) for a set of paths
RECURSIVE sorted(_)
sorted(S) ==
    IF S = {} THEN <<>>
    ELSE LET m == CHOOSE x \in S : \A y \in S : x <= y
         IN <<m>> \o sorted(S \ {m})

Range(s) == {s[i] : i \in 1..Len(s)}

IsPrefix(s, t) == Len(s) <= Len(t) /\ \A i \in 1..Len(s) : s[i] = t[i]

----------------------------------------------------------------------------
\* security.py

\* The size check with >= for >.
validate_file_size_inclusive(p, file, max_size, limits) ==
    LET lim == IF limits = None THEN get_default_limits ELSE limits[1]
        effective_max == IF max_size # None THEN max_size[1] ELSE lim.max_file_size
    IN  IF ~file.stat_ok THEN Exc("ValidationError", p)
        ELSE IF file.size >= effective_max THEN Exc("SecurityError", p)
        ELSE NoExc

\* validate_file_size(path, max_size, limits): the exception raised, or NoExc.
validate_file_size(p, file, max_size, limits) ==
    LET lim == IF limits = None THEN get_default_limits ELSE limits[1]
        effective_max == IF max_size # None THEN max_size[1] ELSE lim.max_file_size
    IN  IF ~file.stat_ok THEN Exc("ValidationError", p)
        ELSE IF file.size > effective_max THEN Exc("SecurityError", p)
        ELSE NoExc

\* validate_image_dimensions(width, height, max_pixels, limits)
validate_image_dimensions(width, height, max_pixels, limits) ==
    LET lim == IF limits = None THEN get_default_limits ELSE limits[1]
        effective_max == IF max_pixels # None THEN max_pixels[1] ELSE lim.max_image_pixels
        total_pixels == width * height
    IN  IF total_pixels > effective_max THEN Exc("SecurityError", 0) ELSE NoExc

\* The count check with the limits object ahead of the explicit maximum.
validate_file_count_limits_first(count, max_files, limits) ==
    LET effective_max == IF limits # None THEN limits[1].max_files
                         ELSE IF max_files # None THEN max_files[1]
                         ELSE get_default_limits.max_files
    IN  IF count > effective_max THEN Exc("SecurityError", 0) ELSE NoExc

\* The count check off by one.
validate_file_count_lenient(count, max_files, limits) ==
    LET lim == IF limits = None THEN get_default_limits ELSE limits[1]
        effective_max == IF max_files # None THEN max_files[1] ELSE lim.max_files
    IN  IF count > effective_max + 1 THEN Exc("SecurityError", 0) ELSE NoExc

\* validate_file_count(count, max_files, limits)
validate_file_count(count, max_files, limits) ==
    LET lim == IF limits = None THEN get_default_limits ELSE limits[1]
        effective_max == IF max_files # None THEN max_files[1] ELSE lim.max_files
    IN  IF count > effective_max THEN Exc("SecurityError", 0) ELSE NoExc

\* A path given to a function: whether it exists and is a directory, whether
\* Path.resolve() answers (and the exception it raises when not: OSError,
\* RuntimeError for a symlink loop, ValueError for an embedded null byte),
\* and the components of the resolved path.
PathObj(exists, is_dir, resolves, error, target) ==
    [exists |-> exists, is_dir |-> is_dir, resolves |-> resolves, error |-> error,
     target |-> target]

\* validate_path_security(path, base_dir): the exception that leaves the call
\* (NoExc: none) and the path returned.
validate_path_security(path, base_dir) ==
    IF ~path.resolves
    THEN IF path.error \in {"OSError", "RuntimeError"}
         THEN [exc |-> Exc("SecurityError", 0), resolved |-> None]
         ELSE [exc |-> Exc(path.error, 0), resolved |-> None]
    ELSE IF base_dir = None
    THEN [exc |-> NoExc, resolved |-> Some(path.target)]
    ELSE IF ~base_dir[1].resolves
    THEN IF base_dir[1].error = "ValueError"
         THEN [exc |-> Exc("SecurityError", 0), resolved |-> None]
         ELSE [exc |-> Exc(base_dir[1].error, 0), resolved |-> None]
    ELSE IF ~IsPrefix(base_dir[1].target, path.target)
    THEN [exc |-> Exc("SecurityError", 0), resolved |-> None]
    ELSE [exc |-> NoExc, resolved |-> Some(path.target)]

----------------------------------------------------------------------------
\* image_loader.py: pure parts

\* validate_path(path, must_exist, must_be_dir)
validate_path(d, must_exist, must_be_dir) ==
    IF must_exist /\ ~d.exists THEN Exc("ValidationError", 0)
    ELSE IF must_be_dir /\ must_exist /\ ~d.is_dir THEN Exc("ValidationError", 0)
    ELSE IF validate_path_security(d, None).exc # NoExc THEN Exc("ValidationError", 0)
    ELSE NoExc

\* The extension compared as it is spelled.
is_supported_image_as_spelled(file) == file.suffix \in SUPPORTED_EXTENSIONS

\* is_supported_image(path), lines 60-69.
is_supported_image(file) == Lower(file.suffix) \in SUPPORTED_EXTENSIONS

\* cv2.imread(str(path)): the decoded image, or NoImage for None.
imread(p, file) ==
    IF file.decodable THEN Image(p, file.width, file.height) ELSE NoImage

\* security.validate_image_file(path, limits, check_dimensions), lines
\* 205-227: path and size checks, then, if asked for, the dimension check
\* inside try / except Exception, which logs a warning for whatever was
\* raised there. [exc |-> the exception that leaves the call, warned |->
\* whether the except clause ran].
validate_image_file(path, file, limits, check_dimensions) ==
    LET lim == IF limits = None THEN get_default_limits ELSE limits[1]
        pathExc == validate_path_security(path, None).exc
        sizeExc == validate_file_size(1, file, None, Some(lim))
        image == imread(1, file)
        dimExc == IF check_dimensions /\ image # NoImage
                  THEN validate_image_dimensions(image.width, image.height, None, Some(lim))
                  ELSE NoExc
    IN  IF pathExc # NoExc THEN [exc |-> pathExc, warned |-> FALSE]
        ELSE IF sizeExc # NoExc THEN [exc |-> sizeExc, warned |-> FALSE]
        ELSE [exc |-> NoExc, warned |-> dimExc # NoExc]

\* load_single_image(path, validate_security, limits): what the call yields,
\* [exc |-> the exception raised or NoExc, image |-> the image returned,
\*  read |-> whether cv2.imread was reached].
load_single_image(p, file, validate_security, limits) ==
    LET sizeExc == IF validate_security
                   THEN validate_file_size(p, file, None, limits)
                   ELSE NoExc
        image == imread(p, file)
    IN  IF sizeExc # NoExc THEN [exc |-> sizeExc, image |-> NoImage, read |-> FALSE]
        ELSE IF image = NoImage
             THEN [exc |-> Exc("ImageLoadError", p), image |-> NoImage, read |-> TRUE]
        ELSE [exc |-> NoExc, image |-> image, read |-> TRUE]

----------------------------------------------------------------------------
\* State

VARIABLES
    input_dir,       \* the input directory, a PathObj
    entries,         \* its entries: path -> [suffix, is_file, stat_ok, size, decodable, width, height]
    pc,              \* position of the calling thread
    call,            \* the arguments of the entry point that was called
    image_paths,     \* load_images: the sorted candidate list
    limits,          \* load_images: the limits in force (None until resolved)
    futures,         \* load_images: per index, the state and outcome of its load task
    yielded,         \* load_images: the indices as_completed has yielded, in order
    images_by_index, \* load_images: the slot array
    completed,       \* load_images: the completion counter
    images,          \* the image list (the loader's result, the stitcher's input)
    stitched,        \* what stitch_images returned
    out_file,        \* the image written to output_path (NoImage: no file)
    out_content,     \* what output_path holds (NoContent: no file)
    out_dir_made,    \* whether save_image created the parent directory
    result,          \* the value the entry point returned
    exc,             \* the exception in flight / raised by the entry point
    events,          \* the progress events delivered to the callback, in order
    stages,          \* the stage calls made so far, in order
    touched,         \* paths for which load_single_image was entered
    reads,           \* paths cv2.imread was called on
    engine_calls,    \* number of calls of stitcher.stitch
    engine_status,   \* the status the last call of stitcher.stitch answered
    http,            \* the gateway's request in progress and its response
    cli,             \* the command-line entry point in progress and its exit
    twin,            \* the first call of a pair of equal calls, and its outcome
    prev             \* the image list of an earlier successful load of this directory

vars == <<input_dir, entries, pc, call, image_paths, limits, futures, yielded,
          images_by_index, completed, images, stitched, out_file, out_content,
          out_dir_made, result, exc, events, stages, touched, reads, engine_calls, engine_status,
          http, cli, twin, default_limits, prev>>

\* The environment of a call: the input directory, the module-level limits
\* the command-line entry point that made the call and the earlier call it
\* is compared with.
envVars == <<input_dir, entries, default_limits, cli, twin>>
loadVars == <<image_paths, limits, futures, yielded, images_by_index, completed,
              touched, reads>>
outVars == <<stitched, out_file, out_content, out_dir_made, engine_calls,
            engine_status>>

NoCall ==
    [fn |-> "none", parallel |-> FALSE, max_workers |-> 0,
     validate_security |-> FALSE, limits |-> None, mode |-> "",
     quality |-> 0, suffix |-> "", cb |-> FALSE]

\* An HTTP request: body is what the client sent as the request body.
NoBody == [kind |-> "none", images |-> [kind |-> "absent", items |-> <<>>], mode |-> ""]
NoRequest == [method |-> "", path |-> "", body |-> NoBody]

\* An HTTP response: status 0 means that none was sent. success is "absent",
\* "true" or "false"; error is the kind of the error text ("": no error
\* member) and index the image position the text names (0: none).
NoResponse ==
    [status |-> 0, type |-> "", success |-> "absent", error |-> "", index |-> 0,
     image |-> NoImage, width |-> 0, height |-> 0, image_count |-> 0, cors |-> FALSE]

\* The gateway: page tells whether web/index.html exists, decoded counts the
\* base64.b64decode calls of the request in progress.
NoHttp == [req |-> NoRequest, resp |-> NoResponse, page |-> TRUE, decoded |-> 0]

\* A command-line run: entry is "run" or "main", workers the value of
\* --workers (0: the entry point has no such option), code the status
\* returned (None: none yet), stderr the errors printed to the error stream,
\* stdout whether the result was printed, escaped the exception that left
\* the entry point.
NoCli ==
    [entry |-> "none", quiet |-> FALSE, workers |-> 0, code |-> None,
     stderr |-> <<>>, stdout |-> FALSE, escaped |-> NoExc]

\* A pair of equal calls: set tells that the first call has ended, call,
\* yielded and outcome are its arguments, the order its loads completed in
\* and what it returned or raised; engine and env are what the stitching
\* engine and the filesystem answer to both calls.
NoTwin ==
    [set |-> FALSE, call |-> NoCall, yielded |-> <<>>, outcome |-> <<>>,
     engine |-> [status |-> "OK", nil |-> FALSE],
     env |-> [parent_exists |-> TRUE, mkdir_ok |-> TRUE, encode_ok |-> TRUE,
              write_ok |-> TRUE]]

NoPrev == [set |-> FALSE, parallel |-> FALSE, images |-> <<>>]
NoResult == [kind |-> "none", images |-> <<>>, image |-> NoImage, image_count |-> 0,
             size |-> <<0, 0>>]

\* A future: state is "pending", "running" or "done"; out is the task's outcome.
NoOutcome == [exc |-> NoExc, image |-> NoImage, read |-> FALSE]
NewFuture == [state |-> "pending", out |-> NoOutcome]

\* The directory as a filesystem object
ADir == PathObj(TRUE, TRUE, TRUE, "", <<"in">>)
AFile == PathObj(TRUE, FALSE, TRUE, "", <<"in">>)
Missing == PathObj(FALSE, FALSE, TRUE, "", <<"in">>)

File(sfx, isf, st, sz, dec, w, h) ==
    [suffix |-> sfx, is_file |-> isf, stat_ok |-> st, size |-> sz,
     decodable |-> dec, width |-> w, height |-> h]

\* Directory entries the model draws from.
GoodFile == File(".jpg", TRUE, TRUE, 500, TRUE, 10, 10)
\* 200 pixels: over a 150-pixel limit
UpperFile == File(".PNG", TRUE, TRUE, 400, TRUE, 20, 10)
CorruptFile == File(".png", TRUE, TRUE, 300, FALSE, 0, 0)
GoneFile == File(".tif", TRUE, FALSE, 0, FALSE, 0, 0)
TextFile == File(".txt", TRUE, TRUE, 100, FALSE, 0, 0)
SubDir == File(".jpg", FALSE, TRUE, 0, FALSE, 0, 0)
\* one byte over a 500-byte limit
OverFile == File(".jpeg", TRUE, TRUE, 501, TRUE, 10, 10)
\* one byte over the default size limit
HugeFile == File(".jpeg", TRUE, TRUE, DEFAULT_MAX_FILE_SIZE + 1, TRUE, 10, 10)

\* Limits a caller of load_images passes.
TightLimits == SecurityLimits(500, 150, 2)

InitRun ==
    /\ pc = "idle"
    /\ call = NoCall
    /\ image_paths = <<>>
    /\ limits = None
    /\ futures = <<>>
    /\ yielded = <<>>
    /\ images_by_index = <<>>
    /\ completed = 0
    /\ images = <<>>
    /\ stitched = NoImage
    /\ out_file = NoImage
    /\ out_content = NoContent
    /\ out_dir_made = FALSE
    /\ result = NoResult
    /\ exc = NoExc
    /\ events = <<>>
    /\ stages = <<>>
    /\ touched = {}
    /\ reads = {}
    /\ engine_calls = 0
    /\ engine_status = ""
    /\ http = NoHttp
    /\ default_limits = DefaultSecurityLimits
    /\ cli = NoCli
    /\ twin = NoTwin
    /\ prev = NoPrev

\* A directory with MaxPaths entries drawn from kinds, or a path that is no
\* directory.
InitFs(kinds) ==
    \/ /\ input_dir = ADir
       /\ entries \in [1..MaxPaths -> kinds]
    \/ /\ input_dir \in {AFile, Missing}
       /\ entries = [p \in 1..MaxPaths |-> TextFile]

----------------------------------------------------------------------------
\* Returning and raising

\* The exception caught and wrapped in the root error type.
Raise_Wrapped(e) ==
    /\ pc' = "raised"
    /\ exc' = Exc("AutoflightError", e.path)

\* The entry point raises e.
Raise(e) ==
    /\ pc' = "raised"
    /\ exc' = e

\* load_images returns imgs: to its caller when that is create_orthomosaic.
LoadReturns(imgs) ==
    /\ images' = imgs
    /\ IF call.fn = "create_orthomosaic"
       THEN /\ pc' = "st_enter"
            /\ result' = result
       ELSE /\ pc' = "done"
            /\ result' = [NoResult EXCEPT !.kind = "images", !.images = imgs]

----------------------------------------------------------------------------
\* image_loader.load_images

\* load_images(input_dir, parallel, max_workers, validate_security, limits,
\* progress_callback) is called.
CallLoadImages(parallel, max_workers, validate_security, lims, cb) ==
    /\ pc = "idle"
    /\ call' = [NoCall EXCEPT !.fn = "load_images", !.parallel = parallel,
                              !.max_workers = max_workers,
                              !.validate_security = validate_security,
                              !.limits = lims, !.cb = cb]
    /\ pc' = "li_discover"
    /\ UNCHANGED <<envVars, http, loadVars, outVars, images, result, exc, events, stages, prev>>

\* load_images without the empty check of lines 141-142: a directory without
\* candidates yields an empty list.
LI_Discover_NoEmptyCheck ==
    /\ pc = "li_discover"
    /\ LET pathExc == validate_path(input_dir, TRUE, TRUE)
           paths == sorted({p \in DOMAIN entries :
                              entries[p].is_file /\ is_supported_image(entries[p])})
           lims == IF call.validate_security /\ call.limits = None
                   THEN Some(get_default_limits) ELSE call.limits
           countExc == IF call.validate_security
                       THEN validate_file_count(Len(paths), None, lims)
                       ELSE NoExc
       IN  /\ stages' = Append(stages, "load")
           /\ IF pathExc # NoExc
              THEN /\ Raise(pathExc)
                   /\ UNCHANGED <<loadVars, events, images, result>>
              ELSE IF countExc # NoExc
              THEN /\ Raise(countExc)
                   /\ image_paths' = paths
                   /\ limits' = lims
                   /\ UNCHANGED <<futures, yielded, images_by_index, completed,
                                  touched, reads, events, images, result>>
              ELSE /\ image_paths' = paths
                   /\ limits' = lims
                   /\ events' = Emit(events, call.cb, F_0, "loader")
                   /\ exc' = exc
                   /\ IF call.parallel /\ Len(paths) > 1
                      THEN /\ pc' = "li_par"
                           /\ futures' = [i \in 1..Len(paths) |-> NewFuture]
                           /\ images_by_index' = [i \in 1..Len(paths) |-> NoImage]
                           /\ UNCHANGED <<images, result>>
                      ELSE IF paths = <<>>
                      THEN /\ LoadReturns(<<>>)
                           /\ UNCHANGED <<futures, images_by_index>>
                      ELSE /\ pc' = "li_seq"
                           /\ UNCHANGED <<futures, images_by_index, images, result>>
                   /\ UNCHANGED <<yielded, completed, touched, reads>>
    /\ UNCHANGED <<envVars, http, call, outVars, prev>>

\* Lines 133-153 and the dispatch of 155-162: path validation, discovery, the
\* empty check, the count check, the first progress event, and the submission
\* of one task per candidate.
LI_Discover ==
    /\ pc = "li_discover"
    /\ LET pathExc == validate_path(input_dir, TRUE, TRUE)
           paths == sorted({p \in DOMAIN entries :
                              entries[p].is_file /\ is_supported_image(entries[p])})
           lims == IF call.validate_security /\ call.limits = None
                   THEN Some(get_default_limits) ELSE call.limits
           countExc == IF call.validate_security
                       THEN validate_file_count(Len(paths), None, lims)
                       ELSE NoExc
       IN  /\ stages' = Append(stages, "load")
           /\ IF pathExc # NoExc
              THEN /\ Raise(pathExc)
                   /\ UNCHANGED <<loadVars, events>>
              ELSE IF paths = <<>>
              THEN /\ Raise(Exc("ImageLoadError", 0))
                   /\ image_paths' = paths
                   /\ UNCHANGED <<limits, futures, yielded, images_by_index,
                                  completed, touched, reads, events>>
              ELSE IF countExc # NoExc
              THEN /\ Raise(countExc)
                   /\ image_paths' = paths
                   /\ limits' = lims
                   /\ UNCHANGED <<futures, yielded, images_by_index, completed,
                                  touched, reads, events>>
              ELSE /\ image_paths' = paths
                   /\ limits' = lims
                   /\ events' = Emit(events, call.cb, F_0, "loader")
                   /\ exc' = exc
                   /\ IF call.parallel /\ Len(paths) > 1
                      THEN /\ pc' = "li_par"
                           /\ futures' = [i \in 1..Len(paths) |-> NewFuture]
                           /\ images_by_index' = [i \in 1..Len(paths) |-> NoImage]
                      ELSE /\ pc' = "li_seq"
                           /\ UNCHANGED <<futures, images_by_index>>
                   /\ UNCHANGED <<yielded, completed, touched, reads>>
    /\ UNCHANGED <<envVars, http, call, outVars, images, result, prev>>

\* The sequential loop delivering the event of an image before loading it.
LI_SeqStep_EmitFirst ==
    /\ pc = "li_seq"
    /\ LET i == Len(images) + 1
           path == image_paths[i]
           out == load_single_image(path, entries[path], call.validate_security, limits)
       IN  /\ touched' = touched \cup {path}
           /\ reads' = IF out.read THEN reads \cup {path} ELSE reads
           /\ events' = Emit(events, call.cb, Frac(i, 2 * Len(image_paths)), "loader")
           /\ IF out.exc # NoExc
              THEN /\ Raise(out.exc)
                   /\ UNCHANGED <<images, result>>
              ELSE /\ exc' = exc
                   /\ IF i = Len(image_paths)
                      THEN LoadReturns(Append(images, out.image))
                      ELSE /\ images' = Append(images, out.image)
                           /\ pc' = pc
                           /\ result' = result
    /\ UNCHANGED <<envVars, http, call, image_paths, limits, futures, yielded,
                   images_by_index, completed, outVars, stages, prev>>

\* Variant of the sequential loop that walks the candidates from the last to
\* the first.
LI_SeqStep_Backwards ==
    /\ pc = "li_seq"
    /\ LET i == Len(images) + 1
           path == image_paths[Len(image_paths) - Len(images)]
           out == load_single_image(path, entries[path], call.validate_security, limits)
       IN  /\ touched' = touched \cup {path}
           /\ reads' = IF out.read THEN reads \cup {path} ELSE reads
           /\ IF out.exc # NoExc
              THEN /\ Raise(out.exc)
                   /\ UNCHANGED <<images, events, result>>
              ELSE /\ events' = Emit(events, call.cb, Frac(i, 2 * Len(image_paths)), "loader")
                   /\ exc' = exc
                   /\ IF i = Len(image_paths)
                      THEN LoadReturns(Append(images, out.image))
                      ELSE /\ images' = Append(images, out.image)
                           /\ pc' = pc
                           /\ result' = result
    /\ UNCHANGED <<envVars, http, call, image_paths, limits, futures, yielded,
                   images_by_index, completed, outVars, stages, prev>>

\* One iteration of the sequential loop, lines 182-187, and the return of
\* line 190 after the last one.
LI_SeqStep ==
    /\ pc = "li_seq"
    /\ LET i == Len(images) + 1
           path == image_paths[i]
           out == load_single_image(path, entries[path], call.validate_security, limits)
       IN  /\ touched' = touched \cup {path}
           /\ reads' = IF out.read THEN reads \cup {path} ELSE reads
           /\ IF out.exc # NoExc
              THEN /\ Raise(out.exc)
                   /\ UNCHANGED <<images, events, result>>
              ELSE /\ events' = Emit(events, call.cb, Frac(i, 2 * Len(image_paths)), "loader")
                   /\ exc' = exc
                   /\ IF i = Len(image_paths)
                      THEN LoadReturns(Append(images, out.image))
                      ELSE /\ images' = Append(images, out.image)
                           /\ pc' = pc
                           /\ result' = result
    /\ UNCHANGED <<envVars, http, call, image_paths, limits, futures, yielded,
                   images_by_index, completed, outVars, stages, prev>>

\* The indices whose task a worker thread is executing.
Running == {i \in 1..Len(futures) : futures[i].state = "running"}

\* A worker thread of the pool takes the next task off the work queue (FIFO,
\* at most max_workers threads) and enters load_single_image.
TaskStart(i) ==
    /\ pc \in {"li_par", "li_exit"}
    /\ i \in 1..Len(futures)
    /\ futures[i].state = "pending"
    /\ \A j \in 1..(i - 1) : futures[j].state # "pending"
    /\ Cardinality(Running) < call.max_workers
    /\ futures' = [futures EXCEPT ![i].state = "running"]
    /\ touched' = touched \cup {image_paths[i]}
    /\ UNCHANGED <<envVars, http, pc, call, image_paths, limits, yielded, images_by_index,
                   completed, images, outVars, result, exc, events, stages, reads, prev>>

\* A worker thread finishes load_single_image for index i: the future is set
\* to the image or to the exception.
TaskFinish(i) ==
    /\ pc \in {"li_par", "li_exit"}
    /\ i \in 1..Len(futures)
    /\ futures[i].state = "running"
    /\ LET path == image_paths[i]
           out == load_single_image(path, entries[path], call.validate_security, limits)
       IN  /\ futures' = [futures EXCEPT ![i] = [state |-> "done", out |-> out]]
           /\ reads' = IF out.read THEN reads \cup {path} ELSE reads
    /\ UNCHANGED <<envVars, http, pc, call, image_paths, limits, yielded, images_by_index,
                   completed, images, outVars, result, exc, events, stages, touched, prev>>

\* The as_completed loop appending results in completion order.
LI_Consume_Append(i) ==
    /\ pc = "li_par"
    /\ i \in 1..Len(futures)
    /\ futures[i].state = "done"
    /\ i \notin Range(yielded)
    /\ yielded' = Append(yielded, i)
    /\ LET out == futures[i].out
       IN  IF out.exc # NoExc
           THEN /\ exc' = out.exc
                /\ pc' = "li_exit"
                /\ UNCHANGED <<images_by_index, completed, events>>
           ELSE /\ images_by_index' = [images_by_index EXCEPT ![completed + 1] = out.image]
                /\ completed' = completed + 1
                /\ events' = Emit(events, call.cb,
                                  Frac(completed + 1, 2 * Len(image_paths)), "loader")
                /\ exc' = exc
                /\ pc' = IF Len(yielded') = Len(futures) THEN "li_exit" ELSE "li_par"
    /\ UNCHANGED <<envVars, http, call, image_paths, limits, futures, images, outVars,
                   result, stages, touched, reads, prev>>

\* One iteration of the as_completed loop, lines 164-177: a finished future
\* not yet yielded is yielded; its image goes to the slot of its index, or its
\* exception is re-raised and leaves the loop.
LI_Consume(i) ==
    /\ pc = "li_par"
    /\ i \in 1..Len(futures)
    /\ futures[i].state = "done"
    /\ i \notin Range(yielded)
    /\ yielded' = Append(yielded, i)
    /\ LET out == futures[i].out
       IN  IF out.exc # NoExc
           THEN /\ exc' = out.exc
                /\ pc' = "li_exit"
                /\ UNCHANGED <<images_by_index, completed, events>>
           ELSE /\ images_by_index' = [images_by_index EXCEPT ![i] = out.image]
                /\ completed' = completed + 1
                /\ events' = Emit(events, call.cb,
                                  Frac(completed + 1, 2 * Len(image_paths)), "loader")
                /\ exc' = exc
                /\ pc' = IF Len(yielded') = Len(futures) THEN "li_exit" ELSE "li_par"
    /\ UNCHANGED <<envVars, http, call, image_paths, limits, futures, images, outVars,
                   result, stages, touched, reads, prev>>

\* The with block is left (line 157): the executor's shutdown waits for every
\* submitted task; then the exception propagates, or line 178's list is
\* returned (line 190).
LI_ParExit ==
    /\ pc = "li_exit"
    /\ \A i \in 1..Len(futures) : futures[i].state = "done"
    /\ IF exc # NoExc
       THEN /\ pc' = "raised"
            /\ UNCHANGED <<images, result>>
       ELSE LoadReturns(images_by_index)
    /\ UNCHANGED <<envVars, http, call, loadVars, outVars, exc, events, stages, prev>>

\* The caller takes the outcome of a load_images call and the process is
\* ready for another call on the same directory.
Return ==
    /\ pc \in {"done", "raised"}
    /\ call.fn = "load_images"
    /\ prev' = IF pc = "done"
               THEN [set |-> TRUE, parallel |-> call.parallel, images |-> result.images]
               ELSE prev
    /\ pc' = "idle"
    /\ call' = NoCall
    /\ image_paths' = <<>>
    /\ limits' = None
    /\ futures' = <<>>
    /\ yielded' = <<>>
    /\ images_by_index' = <<>>
    /\ completed' = 0
    /\ images' = <<>>
    /\ result' = NoResult
    /\ exc' = NoExc
    /\ events' = <<>>
    /\ stages' = <<>>
    /\ touched' = {}
    /\ reads' = {}
    /\ UNCHANGED <<envVars, http, outVars>>

\* The loader called directly, on directories of every kind of entry.
LoadKinds == {GoodFile, UpperFile, CorruptFile, GoneFile, OverFile, TextFile, SubDir}
LoadWorkers == {1, 2}

InitLoad == InitRun /\ InitFs(LoadKinds)

NextLoad ==
    \/ \E parallel \in BOOLEAN, cb \in BOOLEAN :
         \E max_workers \in IF parallel THEN LoadWorkers ELSE {DEFAULT_MAX_WORKERS} :
           \E vl \in {<<FALSE, None>>, <<TRUE, None>>, <<TRUE, Some(TightLimits)>>} :
             CallLoadImages(parallel, max_workers, vl[1], vl[2], cb)
    \/ LI_Discover
    \/ LI_SeqStep
    \/ \E i \in 1..MaxPaths : TaskStart(i)
    \/ \E i \in 1..MaxPaths : TaskFinish(i)
    \/ \E i \in 1..MaxPaths : LI_Consume(i)
    \/ LI_ParExit
    \/ Return

SpecLoad == InitLoad /\ [][NextLoad]_vars

----------------------------------------------------------------------------
\* stitcher.stitch_images

F_start == Frac(1, 2)       \* 0.5
F_detect == Frac(3, 5)      \* 0.6
F_stitched == Frac(19, 20)  \* 0.95

\* The statuses of the external engine (cv2.Stitcher).
EngineStatuses ==
    {"OK", "ERR_NEED_MORE_IMGS", "ERR_HOMOGRAPHY_EST_FAIL",
     "ERR_CAMERA_PARAMS_ADJUST_FAIL", "UNKNOWN"}

RECURSIVE SumWidth(_)
SumWidth(imgs) == IF imgs = <<>> THEN 0 ELSE Head(imgs).width + SumWidth(Tail(imgs))

\* The image the engine composes from imgs.
Mosaic(imgs) == Image(0, SumWidth(imgs), imgs[1].height)

\* What the engine can answer for imgs: no image, or the composed one.
EngineOutputs(imgs) == {NoImage, Mosaic(imgs)}

\* stitch_images returns img: to its caller when that is create_orthomosaic.
StitchReturns(img) ==
    /\ stitched' = img
    /\ IF call.fn = "create_orthomosaic"
       THEN /\ pc' = "co_save"
            /\ result' = result
       ELSE /\ pc' = "done"
            /\ result' = [NoResult EXCEPT !.kind = "image", !.image = img]

\* stitch_images(images, mode, progress_callback) is called.
CallStitchImages(imgs, mode, cb) ==
    /\ pc = "idle"
    /\ call' = [NoCall EXCEPT !.fn = "stitch_images", !.mode = mode, !.cb = cb]
    /\ images' = imgs
    /\ pc' = "st_enter"
    /\ UNCHANGED <<envVars, http, loadVars, outVars, result, exc, events, stages, prev>>

\* stitch_images without the single-image shortcut.
ST_Enter_NoShortcut ==
    /\ pc = "st_enter"
    /\ stages' = Append(stages, "stitch")
    /\ IF images = <<>>
       THEN /\ Raise(Exc("ValidationError", 0))
            /\ UNCHANGED <<stitched, result, events>>
       ELSE IF call.mode \notin {"panorama", "scans"}
       THEN /\ events' = Emit(events, call.cb, F_start, "stitcher")
            /\ Raise(Exc("ValidationError", 0))
            /\ UNCHANGED <<stitched, result>>
       ELSE /\ events' = Emit(Emit(events, call.cb, F_start, "stitcher"),
                              call.cb, F_detect, "stitcher")
            /\ pc' = "st_engine"
            /\ UNCHANGED <<stitched, result, exc>>
    /\ UNCHANGED <<envVars, http, call, loadVars, images, out_file, out_content,
                   out_dir_made,
                   engine_calls, engine_status, prev>>

\* stitch_images checking for an empty list only after the "starting" event.
ST_Enter_LateEmptyCheck ==
    /\ pc = "st_enter"
    /\ stages' = Append(stages, "stitch")
    /\ IF Len(images) = 1
       THEN /\ events' = Emit(events, call.cb, F_1, "stitcher")
            /\ StitchReturns(images[1])
            /\ exc' = exc
       ELSE IF images = <<>> \/ call.mode \notin {"panorama", "scans"}
       THEN /\ events' = Emit(events, call.cb, F_start, "stitcher")
            /\ Raise(Exc("ValidationError", 0))
            /\ UNCHANGED <<stitched, result>>
       ELSE /\ events' = Emit(Emit(events, call.cb, F_start, "stitcher"),
                              call.cb, F_detect, "stitcher")
            /\ pc' = "st_engine"
            /\ UNCHANGED <<stitched, result, exc>>
    /\ UNCHANGED <<envVars, http, call, loadVars, images, out_file, out_content,
                   out_dir_made,
                   engine_calls, engine_status, prev>>

\* stitch_images taking the single-image shortcut only when a callback is given.
ST_Enter_ShortcutInCallback ==
    /\ pc = "st_enter"
    /\ stages' = Append(stages, "stitch")
    /\ IF images = <<>>
       THEN /\ Raise(Exc("ValidationError", 0))
            /\ UNCHANGED <<stitched, result, events>>
       ELSE IF Len(images) = 1 /\ call.cb
       THEN /\ events' = Emit(events, call.cb, F_1, "stitcher")
            /\ StitchReturns(images[1])
            /\ exc' = exc
       ELSE IF call.mode \notin {"panorama", "scans"}
       THEN /\ events' = Emit(events, call.cb, F_start, "stitcher")
            /\ Raise(Exc("ValidationError", 0))
            /\ UNCHANGED <<stitched, result>>
       ELSE /\ events' = Emit(Emit(events, call.cb, F_start, "stitcher"),
                              call.cb, F_detect, "stitcher")
            /\ pc' = "st_engine"
            /\ UNCHANGED <<stitched, result, exc>>
    /\ UNCHANGED <<envVars, http, call, loadVars, images, out_file, out_content,
                   out_dir_made,
                   engine_calls, engine_status, prev>>

\* Lines 38-64: the empty check, the single-image shortcut, the "starting"
\* event, the mode selection, Stitcher_create and the second event.
ST_Enter ==
    /\ pc = "st_enter"
    /\ stages' = Append(stages, "stitch")
    /\ IF images = <<>>
       THEN /\ Raise(Exc("ValidationError", 0))
            /\ UNCHANGED <<stitched, result, events>>
       ELSE IF Len(images) = 1
       THEN /\ events' = Emit(events, call.cb, F_1, "stitcher")
            /\ StitchReturns(images[1])
            /\ exc' = exc
       ELSE IF call.mode \notin {"panorama", "scans"}
       THEN /\ events' = Emit(events, call.cb, F_start, "stitcher")
            /\ Raise(Exc("ValidationError", 0))
            /\ UNCHANGED <<stitched, result>>
       ELSE /\ events' = Emit(Emit(events, call.cb, F_start, "stitcher"),
                              call.cb, F_detect, "stitcher")
            /\ pc' = "st_engine"
            /\ UNCHANGED <<stitched, result, exc>>
    /\ UNCHANGED <<envVars, http, call, loadVars, images, out_file, out_content,
                   out_dir_made,
                   engine_calls, engine_status, prev>>

\* The dictionary error_messages of lines 70-74 and the default of line 75:
\* the text for a status, and whether the text quotes the status value.
error_messages(status) ==
    CASE status = "ERR_NEED_MORE_IMGS" ->
           [text |-> "Need more images with sufficient overlap", quotes |-> FALSE]
      [] status = "ERR_HOMOGRAPHY_EST_FAIL" ->
           [text |-> "Homography estimation failed - images may not overlap sufficiently",
            quotes |-> FALSE]
      [] status = "ERR_CAMERA_PARAMS_ADJUST_FAIL" ->
           [text |-> "Camera parameter adjustment failed", quotes |-> FALSE]
      [] OTHER -> [text |-> "Unknown error (status ...)", quotes |-> TRUE]

\* StitchingError(message): the exception holds its message and nothing else;
\* status is the status value readable from the message ("": none).
StitchingError(text, status) ==
    [type |-> "StitchingError", path |-> 0, message |-> text, status |-> status]

\* Line 76: the exception for a status other than OK.
StitchingFailed(status) ==
    LET msg == error_messages(status)
    IN  StitchingError(msg.text, IF msg.quotes THEN status ELSE "")

\* Line 79: the exception for an OK status without an output image.
StitchingNoOutput == StitchingError("Stitching produced no output", "")

\* The engine call accepting an OK status without an output image.
ST_Engine_NilAccepted ==
    /\ pc = "st_engine"
    /\ engine_calls' = engine_calls + 1
    /\ \E status \in EngineStatuses : \E out \in EngineOutputs(images) :
         /\ engine_status' = status
         /\ IF status # "OK"
            THEN /\ Raise(StitchingFailed(status))
                 /\ UNCHANGED <<stitched, result, events>>
            ELSE /\ events' = Emit(events, call.cb, F_stitched, "stitcher")
                 /\ StitchReturns(out)
                 /\ exc' = exc
    /\ UNCHANGED <<envVars, http, call, loadVars, images, out_file, out_content,
                   out_dir_made,
                   stages, prev>>

\* Lines 66-85: the engine call answering status and out, and the
\* interpretation of the answer.
ST_Answer(status, out) ==
    /\ pc = "st_engine"
    /\ engine_calls' = engine_calls + 1
    /\ engine_status' = status
    /\ IF status # "OK"
       THEN /\ Raise(StitchingFailed(status))
            /\ UNCHANGED <<stitched, result, events>>
       ELSE IF out = NoImage
       THEN /\ Raise(StitchingNoOutput)
            /\ UNCHANGED <<stitched, result, events>>
       ELSE /\ events' = Emit(events, call.cb, F_stitched, "stitcher")
            /\ StitchReturns(out)
            /\ exc' = exc
    /\ UNCHANGED <<envVars, http, call, loadVars, images, out_file, out_content,
                   out_dir_made, stages, prev>>

\* The engine call with any of its answers.
ST_Engine ==
    /\ pc = "st_engine"
    /\ \E status \in EngineStatuses : \E out \in EngineOutputs(images) :
         ST_Answer(status, out)

\* The stitcher called directly.
StitchImages == {Image(1, 10, 10), Image(2, 20, 10)}
StitchLists == UNION {[1..n -> StitchImages] : n \in 0..MaxImages}
Modes == {"panorama", "scans", "invalid"}

InitStitch == InitRun /\ input_dir = Missing /\ entries = [p \in 1..MaxPaths |-> TextFile]

NextStitch ==
    \/ \E imgs \in StitchLists, mode \in Modes, cb \in BOOLEAN :
         CallStitchImages(imgs, mode, cb)
    \/ ST_Enter
    \/ ST_Engine

SpecStitch == InitStitch /\ [][NextStitch]_vars

----------------------------------------------------------------------------
\* output.py

\* What the filesystem and the encoders answer during one save:
\* parent_exists: output_path.parent exists before the call;
\* mkdir_ok: parent.mkdir succeeds; encode_ok: cv2.imencode succeeds;
\* write_ok: cv2.imwrite / write_text succeeds.
SaveEnv(pe, mk, en, wr) ==
    [parent_exists |-> pe, mkdir_ok |-> mk, encode_ok |-> en, write_ok |-> wr]

\* cv2's encoders. PNG (and TIFF) keep the pixels; JPEG stores an
\* approximation of them that depends on the quality. params is the list of
\* encoder parameters passed (<<>>: none, the encoder's defaults).
JpegPixels(image, params) == [approx_of |-> image, params |-> params]
imencode(ext, image, params) ==
    IF ext \in {".jpg", ".jpeg"}
    THEN [format |-> ext, params |-> params, pixels |-> JpegPixels(image, params)]
    ELSE [format |-> ext, params |-> params, pixels |-> image]

\* cv2.imdecode: the pixels an encoded buffer decodes to.
imdecode(buffer) == buffer.pixels

\* base64.b64encode(buffer).decode("ascii") and its inverse.
b64encode(buffer) == [alphabet |-> "base64", bytes |-> buffer]
b64decode(text) == text.bytes

\* The document save_html writes: its elements in document order, with the
\* title, the size line and the single image (the timestamp is left out).
html_content(title, image, img_b64) ==
    <<[tag |-> "title", text |-> title, src |-> None, alt |-> ""],
      [tag |-> "h1", text |-> title, src |-> None, alt |-> ""],
      [tag |-> "p", text |-> <<image.width, image.height>>, src |-> None, alt |-> ""],
      [tag |-> "img", text |-> "",
       src |-> Some([scheme |-> "data", mime |-> "image/png", encoding |-> "base64",
                     payload |-> img_b64]),
       alt |-> title]>>

SaveOutcome(e, made, file) ==
    [exc |-> e, dir_made |-> made, file |-> file, content |-> NoContent]

\* A save that wrote content to output_path.
Saved(made, image, content) ==
    [exc |-> NoExc, dir_made |-> made, file |-> image, content |-> content]

\* save_html embedding the image JPEG-encoded.
save_html_jpeg(image, create_dirs, env, made) ==
    IF image = NoImage \/ IsEmptyImage(image)
    THEN SaveOutcome(Exc("ValidationError", 0), made, NoImage)
    ELSE IF create_dirs /\ ~env.mkdir_ok
    THEN SaveOutcome(Exc("OutputError", 0), made, NoImage)
    ELSE IF ~create_dirs /\ ~(env.parent_exists \/ made)
    THEN SaveOutcome(Exc("ValidationError", 0), made, NoImage)
    ELSE LET dir == made \/ (create_dirs /\ ~env.parent_exists)
         IN  IF ~env.encode_ok THEN SaveOutcome(Exc("OutputError", 0), dir, NoImage)
             ELSE IF ~env.write_ok THEN SaveOutcome(Exc("OutputError", 0), dir, NoImage)
             ELSE Saved(dir, image,
                        [format |-> "html",
                         doc |-> html_content("Orthomosaic", image,
                                              b64encode(imencode(".jpg", image, <<>>)))])

\* save_html(image, output_path, create_dirs), lines 113-191; made: the parent
\* directory was already created by the caller.
save_html(image, create_dirs, env, made) ==
    IF image = NoImage \/ IsEmptyImage(image)
    THEN SaveOutcome(Exc("ValidationError", 0), made, NoImage)
    ELSE IF create_dirs /\ ~env.mkdir_ok
    THEN SaveOutcome(Exc("OutputError", 0), made, NoImage)
    ELSE IF ~create_dirs /\ ~(env.parent_exists \/ made)
    THEN SaveOutcome(Exc("ValidationError", 0), made, NoImage)
    ELSE LET dir == made \/ (create_dirs /\ ~env.parent_exists)
         IN  IF ~env.encode_ok THEN SaveOutcome(Exc("OutputError", 0), dir, NoImage)
             ELSE IF ~env.write_ok THEN SaveOutcome(Exc("OutputError", 0), dir, NoImage)
             ELSE Saved(dir, image,
                        [format |-> "html",
                         doc |-> html_content("Orthomosaic", image,
                                              b64encode(imencode(".png", image, <<>>)))])

\* The encoder parameters save_image passes to cv2.imwrite, lines 69-78.
imwrite_params(suffix, quality, png_compression) ==
    IF suffix \in {".jpg", ".jpeg"} THEN <<"IMWRITE_JPEG_QUALITY", quality>>
    ELSE IF suffix = ".png" THEN <<"IMWRITE_PNG_COMPRESSION", png_compression>>
    ELSE <<>>

\* save_image creating the directory before it looks at its arguments.
save_image_mkdir_first(image, suffix, create_dirs, quality, png_compression, env) ==
    IF create_dirs /\ ~env.mkdir_ok
    THEN SaveOutcome(Exc("OutputError", 0), FALSE, NoImage)
    ELSE IF ~create_dirs /\ ~env.parent_exists
    THEN SaveOutcome(Exc("ValidationError", 0), FALSE, NoImage)
    ELSE LET made == create_dirs /\ ~env.parent_exists
         IN  IF image = NoImage \/ IsEmptyImage(image)
             THEN SaveOutcome(Exc("ValidationError", 0), made, NoImage)
             ELSE IF ~(1 <= quality /\ quality <= 100)
             THEN SaveOutcome(Exc("ValidationError", 0), made, NoImage)
             ELSE IF ~(0 <= png_compression /\ png_compression <= 9)
             THEN SaveOutcome(Exc("ValidationError", 0), made, NoImage)
             ELSE IF Lower(suffix) = ".html"
             THEN save_html(image, create_dirs, env, made)
             ELSE IF ~env.write_ok
             THEN SaveOutcome(Exc("OutputError", 0), made, NoImage)
             ELSE Saved(made, image,
                        imencode(Lower(suffix), image,
                                 imwrite_params(Lower(suffix), quality, png_compression)))

\* save_image(image, output_path, create_dirs, quality, png_compression),
\* lines 43-88.
save_image(image, suffix, create_dirs, quality, png_compression, env) ==
    IF image = NoImage \/ IsEmptyImage(image)
    THEN SaveOutcome(Exc("ValidationError", 0), FALSE, NoImage)
    ELSE IF ~(1 <= quality /\ quality <= 100)
    THEN SaveOutcome(Exc("ValidationError", 0), FALSE, NoImage)
    ELSE IF ~(0 <= png_compression /\ png_compression <= 9)
    THEN SaveOutcome(Exc("ValidationError", 0), FALSE, NoImage)
    ELSE IF create_dirs /\ ~env.mkdir_ok
    THEN SaveOutcome(Exc("OutputError", 0), FALSE, NoImage)
    ELSE IF ~create_dirs /\ ~env.parent_exists
    THEN SaveOutcome(Exc("ValidationError", 0), FALSE, NoImage)
    ELSE LET made == create_dirs /\ ~env.parent_exists
         IN  IF Lower(suffix) = ".html"
             THEN save_html(image, create_dirs, env, made)
             ELSE IF ~env.write_ok
             THEN SaveOutcome(Exc("OutputError", 0), made, NoImage)
             ELSE Saved(made, image,
                        imencode(Lower(suffix), image,
                                 imwrite_params(Lower(suffix), quality, png_compression)))

----------------------------------------------------------------------------
\* orthomosaic.create_orthomosaic

F_saving == Frac(19, 20)   \* 0.95

\* create_orthomosaic(input_dir, output_path, parallel, verbose, mode, quality,
\* progress_callback) is called: lines 77-92, up to the call of load_images
\* with its default max_workers, validate_security and limits.
CallCreateOrthomosaic(parallel, mode, quality, suffix, cb) ==
    /\ pc = "idle"
    /\ call' = [NoCall EXCEPT !.fn = "create_orthomosaic", !.parallel = parallel,
                              !.max_workers = DEFAULT_MAX_WORKERS,
                              !.validate_security = TRUE, !.limits = None,
                              !.mode = mode, !.quality = quality,
                              !.suffix = suffix, !.cb = cb]
    /\ events' = Emit(events, cb, F_0, "controller")
    /\ pc' = "li_discover"
    /\ UNCHANGED <<envVars, http, loadVars, outVars, images, result, exc, stages, prev>>

\* Lines 100-104: the "saving" event and the call of save_image.
CO_Save(env) ==
    /\ pc = "co_save"
    /\ events' = Emit(events, call.cb, F_saving, "controller")
    /\ stages' = Append(stages, "save")
    /\ LET out == save_image(stitched, call.suffix, TRUE, call.quality,
                             DEFAULT_PNG_COMPRESSION, env)
       IN  /\ out_dir_made' = out.dir_made
           /\ out_file' = out.file
           /\ out_content' = out.content
           /\ IF out.exc # NoExc
              THEN Raise(out.exc)
              ELSE /\ pc' = "co_finish"
                   /\ exc' = exc
    /\ UNCHANGED <<envVars, http, call, loadVars, images, stitched, engine_calls,
                   engine_status, result, prev>>

\* The result with size as (height, width).
CO_Finish_Transposed ==
    /\ pc = "co_finish"
    /\ events' = Emit(events, call.cb, F_1, "controller")
    /\ result' = [NoResult EXCEPT !.kind = "OrthomosaicResult",
                                  !.image_count = Len(images),
                                  !.size = <<stitched.height, stitched.width>>]
    /\ pc' = "done"
    /\ UNCHANGED <<envVars, http, call, loadVars, outVars, images, exc, stages, prev>>

\* The controller returning without the final event.
CO_Finish_Silent ==
    /\ pc = "co_finish"
    /\ result' = [NoResult EXCEPT !.kind = "OrthomosaicResult",
                                  !.image_count = Len(images),
                                  !.size = <<stitched.width, stitched.height>>]
    /\ pc' = "done"
    /\ UNCHANGED <<envVars, http, call, loadVars, outVars, images, exc, stages, events, prev>>

\* Lines 106-118: the final event and the result.
CO_Finish ==
    /\ pc = "co_finish"
    /\ events' = Emit(events, call.cb, F_1, "controller")
    /\ result' = [NoResult EXCEPT !.kind = "OrthomosaicResult",
                                  !.image_count = Len(images),
                                  !.size = <<stitched.width, stitched.height>>]
    /\ pc' = "done"
    /\ UNCHANGED <<envVars, http, call, loadVars, outVars, images, exc, stages, prev>>

\* The pipeline, on directories of loadable and unloadable files.
PipeKinds == {GoodFile, CorruptFile, GoneFile, HugeFile, TextFile}
PipeOutputs == {<<DEFAULT_QUALITY, ".jpg">>, <<150, ".jpg">>, <<DEFAULT_QUALITY, ".HTML">>}
SaveEnvs ==
    {SaveEnv(FALSE, TRUE, TRUE, TRUE), SaveEnv(TRUE, FALSE, TRUE, TRUE),
     SaveEnv(TRUE, TRUE, FALSE, TRUE), SaveEnv(TRUE, TRUE, TRUE, FALSE)}

Init == InitRun /\ InitFs(PipeKinds)

Next ==
    \/ \E parallel \in BOOLEAN, mode \in Modes, o \in PipeOutputs, cb \in BOOLEAN :
         CallCreateOrthomosaic(parallel, mode, o[1], o[2], cb)
    \/ LI_Discover
    \/ LI_SeqStep
    \/ \E i \in 1..MaxPaths : TaskStart(i)
    \/ \E i \in 1..MaxPaths : TaskFinish(i)
    \/ \E i \in 1..MaxPaths : LI_Consume(i)
    \/ LI_ParExit
    \/ ST_Enter
    \/ ST_Engine
    \/ \E env \in SaveEnvs : CO_Save(env)
    \/ CO_Finish

Spec == Init /\ [][Next]_vars

----------------------------------------------------------------------------
\* server.py: the HTTP gateway

\* An element of the "images" member: is_str tells whether it is a JSON
\* string, prefix whether the string has a "data:<mime>;base64," prefix,
\* payload what follows the prefix, image what the payload's bytes decode to.
Item(is_str, prefix, payload, image) ==
    [is_str |-> is_str, prefix |-> prefix, payload |-> payload, image |-> image]

PngA == Item(TRUE, FALSE, "png", Image(1, 10, 10))
PngB == Item(TRUE, TRUE, "png", Image(2, 20, 10))
\* a string base64.b64decode raises on
BadBase64 == Item(TRUE, FALSE, "bad_base64", NoImage)
\* base64 of bytes that are no image
NotImage == Item(TRUE, TRUE, "text", NoImage)
\* a JSON number
NonString == Item(FALSE, FALSE, "number", NoImage)

\* Request bodies. kind: "bad_length" (Content-Length is no integer),
\* "not_json", "non_object" (JSON, but no object), "object". images.kind of
\* an object: "absent", "null", "number" (a non-zero number), "list".
Body(kind, images_kind, items, mode) ==
    [kind |-> kind, images |-> [kind |-> images_kind, items |-> items], mode |-> mode]

Request(method, path, body) == [method |-> method, path |-> path, body |-> body]

\* _send_json(obj, status), lines 59-64, for the error objects of the handler.
ErrorResponse(status, success, error, index) ==
    [NoResponse EXCEPT !.status = status, !.type = "application/json",
                       !.success = success, !.error = error, !.index = index,
                       !.cors = TRUE]

\* The response of lines 154-164 with width and height exchanged.
StitchResponse_Swapped(img, n) ==
    [NoResponse EXCEPT !.status = 200, !.type = "application/json",
                       !.success = "true", !.image = img,
                       !.width = img.height, !.height = img.width,
                       !.image_count = n, !.cors = TRUE]

\* Lines 154-164: the response for the stitched image img of n input images.
StitchResponse(img, n) ==
    [NoResponse EXCEPT !.status = 200, !.type = "application/json",
                       !.success = "true", !.image = img,
                       !.width = img.width, !.height = img.height,
                       !.image_count = n, !.cors = TRUE]

\* The route test of do_POST matching by prefix.
IsStitchRoute_Prefix(path) == path \in {"/api/stitch", "/api/stitch/"}

\* Line 90, and line 78.
IsStitchRoute(path) == path = "/api/stitch"
IsPageRoute(path) == path \in {"/", "/index.html"}

\* The subclasses of AutoflightError (exceptions.py).
IsAutoflightError(e) ==
    e.type \in {"AutoflightError", "ImageLoadError", "StitchingError", "OutputError",
                "ValidationError", "SecurityError"}

\* str(payload.get("mode", "panorama")), line 107.
ModeOf(body) == IF body.mode = "absent" THEN "panorama" ELSE body.mode

\* Lines 117-134 for one element: crash is the TypeError of line 117 on an
\* element that is no string, called whether base64.b64decode was reached,
\* error the kind of the 400 response ("": the element decoded to image).
decode_item(b64) ==
    IF ~b64.is_str
    THEN [crash |-> TRUE, called |-> FALSE, error |-> "", image |-> NoImage]
    ELSE IF b64.payload = "bad_base64"
    THEN [crash |-> FALSE, called |-> TRUE, error |-> "Failed to decode image",
          image |-> NoImage]
    ELSE IF b64.image = NoImage
    THEN [crash |-> FALSE, called |-> TRUE, error |-> "Could not read image",
          image |-> NoImage]
    ELSE [crash |-> FALSE, called |-> TRUE, error |-> "", image |-> b64.image]

\* The handler sends resp and ends.
Send(resp) ==
    /\ http' = [http EXCEPT !.resp = resp]
    /\ pc' = "hs_sent"

\* The handler ends with an exception nothing in server.py catches: the
\* connection is closed without a response.
Crash(e) ==
    /\ pc' = "hs_crashed"
    /\ exc' = e

\* do_OPTIONS, lines 68-73.
do_OPTIONS(path) ==
    /\ pc = "idle"
    /\ call' = [NoCall EXCEPT !.fn = "do_OPTIONS"]
    /\ http' = [http EXCEPT !.req = Request("OPTIONS", path, NoBody),
                            !.resp = [NoResponse EXCEPT !.status = 204, !.cors = TRUE]]
    /\ pc' = "hs_sent"
    /\ UNCHANGED <<envVars, loadVars, outVars, images, result, exc, events, stages, prev>>

\* do_GET, lines 77-85; exists: web/index.html exists.
do_GET(path, exists) ==
    /\ pc = "idle"
    /\ call' = [NoCall EXCEPT !.fn = "do_GET"]
    /\ http' = [http EXCEPT
                  !.req = Request("GET", path, NoBody),
                  !.page = exists,
                  !.resp = IF IsPageRoute(path)
                           THEN IF exists
                                THEN [NoResponse EXCEPT !.status = 200, !.type = "text/html",
                                                        !.cors = TRUE]
                                ELSE ErrorResponse(404, "absent", "Web interface not found", 0)
                           ELSE ErrorResponse(404, "absent", "Not found", 0)]
    /\ pc' = "hs_sent"
    /\ UNCHANGED <<envVars, loadVars, outVars, images, result, exc, events, stages, prev>>

\* do_POST, lines 89-93.
do_POST(path, body) ==
    /\ pc = "idle"
    /\ call' = [NoCall EXCEPT !.fn = "do_POST"]
    /\ IF IsStitchRoute(path)
       THEN /\ http' = [http EXCEPT !.req = Request("POST", path, body)]
            /\ pc' = "hs_parse"
       ELSE /\ http' = [http EXCEPT !.req = Request("POST", path, body),
                                    !.resp = ErrorResponse(404, "absent", "Not found", 0)]
            /\ pc' = "hs_sent"
    /\ UNCHANGED <<envVars, loadVars, outVars, images, result, exc, events, stages, prev>>

\* _handle_stitch, lines 98-111: the body is parsed, "images" and "mode" are
\* read, and an empty "images" is rejected.
HS_Parse ==
    /\ pc = "hs_parse"
    /\ LET body == http.req.body
       IN  IF body.kind \in {"bad_length", "not_json"}
           THEN /\ Send(ErrorResponse(400, "false", "Invalid request body", 0))
                /\ UNCHANGED <<call, exc>>
           ELSE IF body.kind = "non_object"
           THEN /\ Crash(Exc("AttributeError", 0))
                /\ UNCHANGED <<call, http>>
           ELSE IF body.images.kind \in {"absent", "null"} \/
                   (body.images.kind = "list" /\ body.images.items = <<>>)
           THEN /\ Send(ErrorResponse(400, "false", "No images provided", 0))
                /\ call' = [call EXCEPT !.mode = ModeOf(body)]
                /\ exc' = exc
           ELSE IF body.images.kind = "number"
           THEN /\ Crash(Exc("TypeError", 0))
                /\ call' = [call EXCEPT !.mode = ModeOf(body)]
                /\ http' = http
           ELSE /\ pc' = "hs_decode"
                /\ call' = [call EXCEPT !.mode = ModeOf(body)]
                /\ UNCHANGED <<http, exc>>
    /\ UNCHANGED <<envVars, loadVars, outVars, images, result, events, stages, prev>>

\* One iteration of the loop of lines 115-135, and after the last one the
\* call of stitch_images at line 139.
HS_Decode ==
    /\ pc = "hs_decode"
    /\ LET items == http.req.body.images.items
           i == Len(images) + 1
           out == decode_item(items[i])
           n == IF out.called THEN http.decoded + 1 ELSE http.decoded
       IN  IF out.crash
           THEN /\ Crash(Exc("TypeError", 0))
                /\ UNCHANGED <<http, images>>
           ELSE IF out.error # ""
           THEN /\ http' = [http EXCEPT !.decoded = n,
                                        !.resp = ErrorResponse(400, "false", out.error, i)]
                /\ pc' = "hs_sent"
                /\ UNCHANGED <<images, exc>>
           ELSE /\ http' = [http EXCEPT !.decoded = n]
                /\ images' = Append(images, out.image)
                /\ pc' = IF i = Len(items) THEN "st_enter" ELSE "hs_decode"
                /\ exc' = exc
    /\ UNCHANGED <<envVars, call, loadVars, outVars, result, events, stages, prev>>

\* stitcher.stitch (stitcher.py line 66) raising an error of the engine,
\* which is no AutoflightError and leaves stitch_images unchanged.
ST_EngineRaises ==
    /\ pc = "st_engine"
    /\ engine_calls' = engine_calls + 1
    /\ Raise(Exc("cv2.error", 0))
    /\ UNCHANGED <<envVars, http, call, loadVars, images, stitched, out_file,
                   out_content, out_dir_made, engine_status, result, events, stages, prev>>

\* Lines 140-164: the outcome of stitch_images is turned into the response;
\* cv2.imencode answers ok.
HS_Respond(ok) ==
    /\ pc \in {"done", "raised"}
    /\ call.fn = "do_POST"
    /\ IF pc = "raised"
       THEN IF IsAutoflightError(exc)
            THEN Send(ErrorResponse(422, "false", "str(exc)", 0))
            ELSE Send(ErrorResponse(500, "false", "Stitching error", 0))
       ELSE IF ~ok
       THEN Send(ErrorResponse(500, "false", "Failed to encode result image", 0))
       ELSE Send(StitchResponse(result.image, Len(images)))
    /\ UNCHANGED <<envVars, call, loadVars, outVars, images, result, exc, events,
                   stages, prev>>

\* The requests the model sends.
Paths == {"/", "/index.html", "/api/stitch", "/api/stitch/", "/nonexistent"}
Items == {PngA, PngB, BadBase64, NotImage, NonString}
ItemLists == UNION {[1..n -> Items] : n \in 0..MaxImages}
BodyModes == Modes \cup {"absent"}
Bodies ==
    {Body(k, "absent", <<>>, "absent") : k \in {"bad_length", "not_json", "non_object"}}
    \cup {Body("object", k, <<>>, m) : k \in {"absent", "null", "number"}, m \in BodyModes}
    \cup {Body("object", "list", items, m) : items \in ItemLists, m \in BodyModes}

InitServer == InitRun /\ input_dir = Missing /\ entries = [p \in 1..MaxPaths |-> TextFile]

NextServer ==
    \/ \E path \in Paths : do_OPTIONS(path)
    \/ \E path \in Paths, exists \in BOOLEAN : do_GET(path, exists)
    \/ \E path \in Paths, body \in Bodies : do_POST(path, body)
    \/ HS_Parse
    \/ HS_Decode
    \/ ST_Enter
    \/ ST_Engine
    \/ ST_EngineRaises
    \/ \E ok \in BOOLEAN : HS_Respond(ok)

SpecServer == InitServer /\ [][NextServer]_vars

----------------------------------------------------------------------------
\* security.py and image_loader.validate_path called directly

\* A validator returns None or raises e.
ValidatorEnds(e) ==
    /\ pc' = IF e = NoExc THEN "done" ELSE "raised"
    /\ exc' = e
    /\ result' = NoResult

\* validate_file_size(path, max_size, limits) is called on a file.
CallValidateFileSize(file, max_size, lims) ==
    /\ pc = "idle"
    /\ call' = [fn |-> "validate_file_size", file |-> file, max |-> max_size,
                limits |-> lims]
    /\ ValidatorEnds(validate_file_size(1, file, max_size, lims))
    /\ UNCHANGED <<envVars, http, loadVars, outVars, images, events, stages, prev>>

\* validate_file_count(count, max_files, limits) is called.
CallValidateFileCount(count, max_files, lims) ==
    /\ pc = "idle"
    /\ call' = [fn |-> "validate_file_count", count |-> count, max |-> max_files,
                limits |-> lims]
    /\ ValidatorEnds(validate_file_count(count, max_files, lims))
    /\ UNCHANGED <<envVars, http, loadVars, outVars, images, events, stages, prev>>

\* validate_image_dimensions(width, height, max_pixels, limits) is called.
CallValidateImageDimensions(width, height, max_pixels, lims) ==
    /\ pc = "idle"
    /\ call' = [fn |-> "validate_image_dimensions", width |-> width, height |-> height,
                max |-> max_pixels, limits |-> lims]
    /\ ValidatorEnds(validate_image_dimensions(width, height, max_pixels, lims))
    /\ UNCHANGED <<envVars, http, loadVars, outVars, images, events, stages, prev>>

\* A caller assigns to an attribute of the instance get_default_limits()
\* returned: SecurityLimits is a plain class (lines 24-41) and the function
\* hands out the module-level instance (line 54).
SetDefaultLimit(attr, v) ==
    /\ pc = "idle"
    /\ default_limits' = [get_default_limits EXCEPT ![attr] = v]
    /\ UNCHANGED <<input_dir, entries, cli, twin, pc, call, http, loadVars, outVars,
                   images, result, exc, events, stages, prev>>

\* validate_path_security(path, base_dir) is called.
CallValidatePathSecurity(path, base_dir) ==
    /\ pc = "idle"
    /\ call' = [fn |-> "validate_path_security", path |-> path, base_dir |-> base_dir]
    /\ LET out == validate_path_security(path, base_dir)
       IN  /\ pc' = IF out.exc = NoExc THEN "done" ELSE "raised"
           /\ exc' = out.exc
           /\ result' = [kind |-> "path", resolved |-> out.resolved]
    /\ UNCHANGED <<envVars, http, loadVars, outVars, images, events, stages, prev>>

\* validate_path(path, must_exist, must_be_dir) is called.
CallValidatePath(path, must_exist, must_be_dir) ==
    /\ pc = "idle"
    /\ call' = [fn |-> "validate_path", path |-> path, must_exist |-> must_exist,
                must_be_dir |-> must_be_dir]
    /\ ValidatorEnds(validate_path(path, must_exist, must_be_dir))
    /\ UNCHANGED <<envVars, http, loadVars, outVars, images, events, stages, prev>>

\* validate_image_file(path, limits, check_dimensions) is called on a file.
CallValidateImageFile(path, file, lims, check_dimensions) ==
    /\ pc = "idle"
    /\ call' = [fn |-> "validate_image_file", path |-> path, file |-> file,
                limits |-> lims, check_dimensions |-> check_dimensions]
    /\ LET out == validate_image_file(path, file, lims, check_dimensions)
       IN  /\ pc' = IF out.exc = NoExc THEN "done" ELSE "raised"
           /\ exc' = out.exc
           /\ result' = [kind |-> "validated", warned |-> out.warned]
    /\ UNCHANGED <<envVars, http, loadVars, outVars, images, events, stages, prev>>

Validators ==
    {"validate_file_size", "validate_file_count", "validate_image_dimensions",
     "validate_path_security", "validate_path", "validate_image_file"}

\* The caller takes the outcome of a validator.
ValidatorReturn ==
    /\ pc \in {"done", "raised"}
    /\ call.fn \in Validators
    /\ pc' = "idle"
    /\ call' = NoCall
    /\ exc' = NoExc
    /\ result' = NoResult
    /\ UNCHANGED <<envVars, http, loadVars, outVars, images, events, stages, prev>>

\* The arguments the model calls the validators with.
LooseLimits == SecurityLimits(501, 200, 3)
GivenLimits == {None, Some(TightLimits), Some(LooseLimits)}
GivenMaxima == {None, Some(1), Some(499)}
SizedFiles ==
    {File(".jpg", TRUE, TRUE, sz, TRUE, 10, 10) :
        sz \in {1, 2, 499, 500, 501, 502, DEFAULT_MAX_FILE_SIZE, DEFAULT_MAX_FILE_SIZE + 1}}
    \cup {GoneFile}
Counts == {1, 2, 3, 4, 499, 500, DEFAULT_MAX_FILES, DEFAULT_MAX_FILES + 1}
Dimensions ==
    {<<1, 1>>, <<2, 1>>, <<15, 10>>, <<151, 1>>, <<20, 10>>, <<201, 1>>, <<499, 1>>,
     <<500, 1>>, <<10000, 10000>>, <<10000, 10001>>}
LimitAttributes == {"max_file_size", "max_image_pixels", "max_files"}
AssignedValues == {1, 500}
ImageFiles == {GoodFile, UpperFile, CorruptFile, OverFile, GoneFile}

\* Paths: a base directory, entries below it, places outside it, and paths
\* Path.resolve() raises on.
BaseDir == PathObj(TRUE, TRUE, TRUE, "", <<"srv", "base">>)
GivenPaths ==
    {BaseDir,
     PathObj(TRUE, FALSE, TRUE, "", <<"srv", "base", "a.jpg">>),
     PathObj(FALSE, FALSE, TRUE, "", <<"srv", "base", "new", "b.jpg">>),
     PathObj(TRUE, TRUE, TRUE, "", <<"srv">>),
     PathObj(TRUE, FALSE, TRUE, "", <<"srv", "base2", "a.jpg">>),
     PathObj(TRUE, FALSE, TRUE, "", <<"etc", "passwd">>),
     PathObj(FALSE, FALSE, FALSE, "OSError", <<>>),
     PathObj(FALSE, FALSE, FALSE, "RuntimeError", <<>>),
     PathObj(FALSE, FALSE, FALSE, "ValueError", <<>>)}
ImageFilePaths == {path \in GivenPaths : ~path.is_dir /\ (path.exists \/ ~path.resolves)}
GivenBases ==
    {None, Some(BaseDir),
     Some(PathObj(FALSE, FALSE, FALSE, "OSError", <<>>)),
     Some(PathObj(FALSE, FALSE, FALSE, "RuntimeError", <<>>)),
     Some(PathObj(FALSE, FALSE, FALSE, "ValueError", <<>>))}

InitValidate == InitRun /\ input_dir = Missing /\ entries = [p \in 1..MaxPaths |-> TextFile]

NextValidate ==
    \/ \E file \in SizedFiles, max_size \in GivenMaxima, lims \in GivenLimits :
         CallValidateFileSize(file, max_size, lims)
    \/ \E count \in Counts, max_files \in GivenMaxima, lims \in GivenLimits :
         CallValidateFileCount(count, max_files, lims)
    \/ \E d \in Dimensions, max_pixels \in GivenMaxima, lims \in GivenLimits :
         CallValidateImageDimensions(d[1], d[2], max_pixels, lims)
    \/ \E attr \in LimitAttributes, v \in AssignedValues : SetDefaultLimit(attr, v)
    \/ \E path \in GivenPaths, base_dir \in GivenBases :
         CallValidatePathSecurity(path, base_dir)
    \/ \E path \in GivenPaths, must_exist \in BOOLEAN, must_be_dir \in BOOLEAN :
         CallValidatePath(path, must_exist, must_be_dir)
    \/ \E path \in ImageFilePaths, file \in ImageFiles, lims \in GivenLimits,
          check_dimensions \in BOOLEAN :
         CallValidateImageFile(path, file, lims, check_dimensions)
    \/ ValidatorReturn

SpecValidate == InitValidate /\ [][NextValidate]_vars

----------------------------------------------------------------------------
\* output.save_image called directly

\* save_image(image, output_path, create_dirs, quality, png_compression) is
\* called with output_path ending in suffix; env is what the filesystem and
\* the encoders answer. A directory or file an earlier call left is there.
CallSaveImage(image, suffix, create_dirs, quality, png_compression, env) ==
    /\ pc = "idle"
    /\ (out_dir_made \/ out_content # NoContent) => env.parent_exists
    /\ call' = [fn |-> "save_image", image |-> image, suffix |-> suffix,
                create_dirs |-> create_dirs, quality |-> quality,
                png_compression |-> png_compression, env |-> env]
    /\ LET out == save_image(image, suffix, create_dirs, quality, png_compression, env)
       IN  /\ pc' = IF out.exc = NoExc THEN "done" ELSE "raised"
           /\ exc' = out.exc
           /\ out_dir_made' = (out_dir_made \/ out.dir_made)
           /\ out_file' = IF out.exc = NoExc THEN out.file ELSE out_file
           /\ out_content' = IF out.exc = NoExc THEN out.content ELSE out_content
    /\ UNCHANGED <<envVars, http, loadVars, images, stitched, engine_calls,
                   engine_status, result, events, stages, prev>>

\* The caller takes the outcome of save_image; what was written stays.
SaveReturn ==
    /\ pc \in {"done", "raised"}
    /\ call.fn = "save_image"
    /\ pc' = "idle"
    /\ call' = NoCall
    /\ exc' = NoExc
    /\ UNCHANGED <<envVars, http, loadVars, outVars, images, result, events, stages,
                   prev>>

\* The arguments the model calls save_image with.
SavedImages == {NoImage, Image(1, 0, 10), Image(1, 10, 10), Image(2, 20, 10)}
SaveSuffixes == {".jpg", ".png", ".html", ".HTML"}
Qualities == {0, 1, 50, 100, 150}
PngCompressions == {-1, 0, 9, 10}
AllSaveEnvs == SaveEnvs \cup {SaveEnv(TRUE, TRUE, TRUE, TRUE)}

InitSave == InitRun /\ input_dir = Missing /\ entries = [p \in 1..MaxPaths |-> TextFile]

NextSave ==
    \/ \E image \in SavedImages, suffix \in SaveSuffixes, create_dirs \in BOOLEAN,
          quality \in Qualities, png_compression \in PngCompressions,
          env \in AllSaveEnvs :
         CallSaveImage(image, suffix, create_dirs, quality, png_compression, env)
    \/ SaveReturn

SpecSave == InitSave /\ [][NextSave]_vars

----------------------------------------------------------------------------
\* cli.run and orthomosaic.main

\* config_from_args(parsed), cli.py lines 102-130: the exception the
\* constructors of the configuration raise (config.py lines 45-50, 64-67).
config_from_args(quality, mode) ==
    IF ~(1 <= quality /\ quality <= 100) THEN Exc("ValueError", 0)
    ELSE IF mode \notin {"panorama", "scans"} THEN Exc("ValueError", 0)
    ELSE NoExc

\* The entry point calls create_orthomosaic (orthomosaic.py lines 77-92).
CliCallsPipeline(parallel, mode, quality, suffix, cb) ==
    /\ call' = [NoCall EXCEPT !.fn = "create_orthomosaic", !.parallel = parallel,
                              !.max_workers = DEFAULT_MAX_WORKERS,
                              !.validate_security = TRUE, !.limits = None,
                              !.mode = mode, !.quality = quality,
                              !.suffix = suffix, !.cb = cb]
    /\ events' = Emit(events, cb, F_0, "controller")
    /\ pc' = "li_discover"

\* cli.run(args) without --dry-run, lines 176-211: the configuration is built
\* from the arguments before the try block, then the pipeline is called with
\* parallel, verbose, mode, quality and the callback; the max_workers of the
\* configuration is passed to nothing.
run(no_parallel, mode, quality, suffix, progress, quiet, workers) ==
    /\ pc = "idle"
    /\ cli = NoCli
    /\ IF config_from_args(quality, mode) # NoExc
       THEN /\ cli' = [NoCli EXCEPT !.entry = "run", !.quiet = quiet,
                                    !.workers = workers,
                                    !.escaped = config_from_args(quality, mode)]
            /\ pc' = "cli_exit"
            /\ UNCHANGED <<call, events>>
       ELSE /\ cli' = [NoCli EXCEPT !.entry = "run", !.quiet = quiet,
                                    !.workers = workers]
            /\ CliCallsPipeline(~no_parallel, mode, quality, suffix, progress)
    /\ UNCHANGED <<input_dir, entries, default_limits, twin, http, loadVars, outVars,
                   images, result, exc, stages, prev>>

\* run, lines 213-230: the result is printed and 0 returned, or the exception
\* is printed to stderr and 1 returned.
run_Ends ==
    /\ pc \in {"done", "raised"}
    /\ cli.entry = "run"
    /\ cli' = IF pc = "done"
              THEN [cli EXCEPT !.code = Some(0), !.stdout = ~cli.quiet]
              ELSE [cli EXCEPT !.code = Some(1), !.stderr = Append(cli.stderr, exc)]
    /\ pc' = "cli_exit"
    /\ UNCHANGED <<input_dir, entries, default_limits, twin, http, call, loadVars,
                   outVars, images, result, exc, events, stages, prev>>

\* orthomosaic.main(args), lines 130-193: the parsed arguments go to
\* create_orthomosaic as they are, without a progress callback.
main(no_parallel, mode, quality, suffix, quiet) ==
    /\ pc = "idle"
    /\ cli = NoCli
    /\ cli' = [NoCli EXCEPT !.entry = "main", !.quiet = quiet]
    /\ CliCallsPipeline(~no_parallel, mode, quality, suffix, FALSE)
    /\ UNCHANGED <<input_dir, entries, default_limits, twin, http, loadVars, outVars,
                   images, result, exc, stages, prev>>

\* main, lines 195-215: as in run, with one except clause for AutoflightError
\* and one for every other exception.
main_Ends ==
    /\ pc \in {"done", "raised"}
    /\ cli.entry = "main"
    /\ cli' = IF pc = "done"
              THEN [cli EXCEPT !.code = Some(0), !.stdout = ~cli.quiet]
              ELSE IF IsAutoflightError(exc)
              THEN [cli EXCEPT !.code = Some(1), !.stderr = Append(cli.stderr, exc)]
              ELSE [cli EXCEPT !.code = Some(1), !.stderr = Append(cli.stderr, exc)]
    /\ pc' = "cli_exit"
    /\ UNCHANGED <<input_dir, entries, default_limits, twin, http, call, loadVars,
                   outVars, images, result, exc, events, stages, prev>>

\* The command lines: argparse admits the two modes only (cli.py line 46).
CliKinds == {GoodFile, CorruptFile, TextFile}
CliModes == {"panorama", "scans"}
CliWorkers == {1, DEFAULT_MAX_WORKERS}

InitCli == InitRun /\ InitFs(CliKinds)

NextCli ==
    \/ \E no_parallel \in BOOLEAN, mode \in CliModes, o \in PipeOutputs,
          progress \in BOOLEAN, quiet \in BOOLEAN, workers \in CliWorkers :
         run(no_parallel, mode, o[1], o[2], progress, quiet, workers)
    \/ \E no_parallel \in BOOLEAN, mode \in CliModes, o \in PipeOutputs,
          quiet \in BOOLEAN :
         main(no_parallel, mode, o[1], o[2], quiet)
    \/ LI_Discover
    \/ LI_SeqStep
    \/ \E i \in 1..MaxPaths : TaskStart(i)
    \/ \E i \in 1..MaxPaths : TaskFinish(i)
    \/ \E i \in 1..MaxPaths : LI_Consume(i)
    \/ LI_ParExit
    \/ ST_Enter
    \/ ST_Engine
    \/ ST_EngineRaises
    \/ \E env \in SaveEnvs : CO_Save(env)
    \/ CO_Finish
    \/ run_Ends
    \/ main_Ends

SpecCli == InitCli /\ [][NextCli]_vars

----------------------------------------------------------------------------
\* The same call made twice, with and without a progress callback

\* What a call returned or raised and what it left behind, apart from the
\* events its callback received.
Outcome ==
    [pc |-> pc, exc |-> exc, result |-> result, images |-> images,
     stitched |-> stitched, out_file |-> out_file, out_content |-> out_content,
     out_dir_made |-> out_dir_made, stages |-> stages, engine_calls |-> engine_calls]

TwinModes == {"panorama", "invalid"}

\* The first call of a pair: load_images, stitch_images or create_orthomosaic.
TwinFirstCall ==
    /\ ~twin.set
    /\ \/ \E parallel \in BOOLEAN, cb \in BOOLEAN :
            CallLoadImages(parallel, DEFAULT_MAX_WORKERS, TRUE, None, cb)
       \/ \E imgs \in StitchLists, mode \in TwinModes, cb \in BOOLEAN :
            CallStitchImages(imgs, mode, cb)
       \/ \E parallel \in BOOLEAN, mode \in TwinModes, cb \in BOOLEAN :
            CallCreateOrthomosaic(parallel, mode, DEFAULT_QUALITY, ".jpg", cb)

\* The first call has ended: its arguments, the order in which its loads
\* completed and its outcome are kept, and what it left is cleared away.
TwinSwitch ==
    /\ pc \in {"done", "raised"}
    /\ ~twin.set
    /\ twin' = [twin EXCEPT !.set = TRUE, !.call = call, !.yielded = yielded,
                            !.outcome = Outcome]
    /\ pc' = "idle"
    /\ call' = NoCall
    /\ image_paths' = <<>>
    /\ limits' = None
    /\ futures' = <<>>
    /\ yielded' = <<>>
    /\ images_by_index' = <<>>
    /\ completed' = 0
    /\ images' = <<>>
    /\ stitched' = NoImage
    /\ out_file' = NoImage
    /\ out_content' = NoContent
    /\ out_dir_made' = FALSE
    /\ result' = NoResult
    /\ exc' = NoExc
    /\ events' = <<>>
    /\ stages' = <<>>
    /\ touched' = {}
    /\ reads' = {}
    /\ engine_calls' = 0
    /\ engine_status' = ""
    /\ UNCHANGED <<input_dir, entries, default_limits, cli, http, prev>>

\* The second call of the pair: the arguments of the first, with a callback
\* where the first had none and without one where it had.
TwinSecondCall ==
    /\ twin.set
    /\ LET c == twin.call
       IN  CASE c.fn = "load_images" ->
                  CallLoadImages(c.parallel, c.max_workers, c.validate_security,
                                 c.limits, ~c.cb)
             [] c.fn = "stitch_images" ->
                  CallStitchImages(twin.outcome.images, c.mode, ~c.cb)
             [] c.fn = "create_orthomosaic" ->
                  CallCreateOrthomosaic(c.parallel, c.mode, c.quality, c.suffix, ~c.cb)

\* The engine answers both calls of a pair alike, and so does the filesystem.
TwinEngine ==
    /\ pc = "st_engine"
    /\ ST_Answer(twin.engine.status,
                 IF twin.engine.nil THEN NoImage ELSE Mosaic(images))
TwinSave == CO_Save(twin.env)

TwinKinds == {GoodFile, CorruptFile, TextFile}
TwinEngines ==
    {[status |-> "OK", nil |-> FALSE], [status |-> "ERR_NEED_MORE_IMGS", nil |-> TRUE]}
TwinEnvs == {SaveEnv(FALSE, TRUE, TRUE, TRUE), SaveEnv(TRUE, TRUE, TRUE, FALSE)}

InitTwin ==
    /\ pc = "idle"
    /\ call = NoCall
    /\ image_paths = <<>>
    /\ limits = None
    /\ futures = <<>>
    /\ yielded = <<>>
    /\ images_by_index = <<>>
    /\ completed = 0
    /\ images = <<>>
    /\ stitched = NoImage
    /\ out_file = NoImage
    /\ out_content = NoContent
    /\ out_dir_made = FALSE
    /\ result = NoResult
    /\ exc = NoExc
    /\ events = <<>>
    /\ stages = <<>>
    /\ touched = {}
    /\ reads = {}
    /\ engine_calls = 0
    /\ engine_status = ""
    /\ http = NoHttp
    /\ default_limits = DefaultSecurityLimits
    /\ cli = NoCli
    /\ prev = NoPrev
    /\ InitFs(TwinKinds)
    /\ \E engine \in TwinEngines, env \in TwinEnvs :
         twin = [NoTwin EXCEPT !.engine = engine, !.env = env]

NextTwin ==
    \/ TwinFirstCall
    \/ LI_Discover
    \/ LI_SeqStep
    \/ \E i \in 1..MaxPaths : TaskStart(i)
    \/ \E i \in 1..MaxPaths : TaskFinish(i)
    \/ \E i \in 1..MaxPaths : LI_Consume(i)
    \/ LI_ParExit
    \/ ST_Enter
    \/ TwinEngine
    \/ TwinSave
    \/ CO_Finish
    \/ TwinSwitch
    \/ TwinSecondCall

SpecTwin == InitTwin /\ [][NextTwin]_vars

----------------------------------------------------------------------------
\* config.py

\* OutputConfig(jpeg_quality, png_compression), lines 41-50: the dataclass
\* stores the fields and __post_init__ validates them. [exc |-> the
\* exception raised or NoExc, value |-> the instance].
OutputConfig(jpeg_quality, png_compression) ==
    IF ~(1 <= jpeg_quality /\ jpeg_quality <= 100) THEN
        [exc |-> Exc("ValueError", 0), value |-> None]
    ELSE IF ~(0 <= png_compression /\ png_compression <= 9) THEN
        [exc |-> Exc("ValueError", 0), value |-> None]
    ELSE [exc |-> NoExc,
          value |-> Some([jpeg_quality |-> jpeg_quality,
                          png_compression |-> png_compression, create_dirs |-> TRUE])]

\* StitchingConfig(mode), lines 61-67.
StitchingConfig(mode) ==
    IF mode \notin {"panorama", "scans"} THEN
        [exc |-> Exc("ValueError", 0), value |-> None]
    ELSE [exc |-> NoExc, value |-> Some([mode |-> mode, try_use_gpu |-> FALSE])]

\* AutoflightConfig(), lines 89-94: every part built with its defaults.
AutoflightConfig ==
    [performance |-> [parallel_loading |-> TRUE, max_workers |-> DEFAULT_MAX_WORKERS],
     output |-> OutputConfig(DEFAULT_QUALITY, DEFAULT_PNG_COMPRESSION).value[1],
     stitching |-> StitchingConfig("panorama").value[1],
     verbose |-> FALSE]

\* int(text) for the texts the model puts into the environment: the number
\* (surrounding blanks are ignored), or None where int raises ValueError.
int(text) ==
    CASE text = "1" -> Some(1)
      [] text = "2" -> Some(2)
      [] text = " 80 " -> Some(80)
      [] text = "100" -> Some(100)
      [] text = "0" -> Some(0)
      [] text = "150" -> Some(150)
      [] text = "-5" -> Some(0 - 5)
      [] OTHER -> None

\* AutoflightConfig.from_env(), lines 110-130; environ maps each of the five
\* variable names to None (unset) or Some(text). The defaults are built
\* first, then each variable that is set is assigned to its attribute; an
\* int() that fails ends the call with ValueError.
from_env(environ) ==
    LET config == AutoflightConfig
        c1 == IF environ.PARALLEL # None
              THEN [config EXCEPT !.performance.parallel_loading = (environ.PARALLEL[1] = "1")]
              ELSE config
        workers == IF environ.MAX_WORKERS # None THEN int(environ.MAX_WORKERS[1]) ELSE Some(0)
        c2 == IF environ.MAX_WORKERS # None /\ workers # None
              THEN [c1 EXCEPT !.performance.max_workers = workers[1]]
              ELSE c1
        quality == IF environ.JPEG_QUALITY # None THEN int(environ.JPEG_QUALITY[1]) ELSE Some(0)
        c3 == IF environ.JPEG_QUALITY # None /\ quality # None
              THEN [c2 EXCEPT !.output.jpeg_quality = quality[1]]
              ELSE c2
        c4 == IF environ.MODE # None
              THEN [c3 EXCEPT !.stitching.mode = environ.MODE[1]]
              ELSE c3
        c5 == IF environ.VERBOSE # None
              THEN [c4 EXCEPT !.verbose = (environ.VERBOSE[1] = "1")]
              ELSE c4
    IN  IF workers = None \/ quality = None
        THEN [exc |-> Exc("ValueError", 0), value |-> None]
        ELSE [exc |-> NoExc, value |-> Some(c5)]

\* A constructor or from_env ends: the instance is handed to the caller or
\* the exception raised.
ConfigEnds(kind, out) ==
    /\ pc' = IF out.exc = NoExc THEN "done" ELSE "raised"
    /\ exc' = out.exc
    /\ result' = IF out.exc = NoExc THEN [kind |-> kind, config |-> out.value[1]]
                 ELSE NoResult

\* OutputConfig(jpeg_quality=..., png_compression=...) is called.
CallOutputConfig(jpeg_quality, png_compression) ==
    /\ pc = "idle"
    /\ call' = [fn |-> "OutputConfig", jpeg_quality |-> jpeg_quality,
                png_compression |-> png_compression]
    /\ ConfigEnds("OutputConfig", OutputConfig(jpeg_quality, png_compression))
    /\ UNCHANGED <<envVars, http, loadVars, outVars, images, events, stages, prev>>

\* StitchingConfig(mode=...) is called.
CallStitchingConfig(mode) ==
    /\ pc = "idle"
    /\ call' = [fn |-> "StitchingConfig", mode |-> mode]
    /\ ConfigEnds("StitchingConfig", StitchingConfig(mode))
    /\ UNCHANGED <<envVars, http, loadVars, outVars, images, events, stages, prev>>

\* AutoflightConfig.from_env() is called in an environment.
CallFromEnv(environ) ==
    /\ pc = "idle"
    /\ call' = [fn |-> "from_env", environ |-> environ]
    /\ ConfigEnds("AutoflightConfig", from_env(environ))
    /\ UNCHANGED <<envVars, http, loadVars, outVars, images, events, stages, prev>>

\* The caller takes the configuration or the exception.
ConfigReturn ==
    /\ pc \in {"done", "raised"}
    /\ call.fn \in {"OutputConfig", "StitchingConfig", "from_env"}
    /\ pc' = "idle"
    /\ call' = NoCall
    /\ exc' = NoExc
    /\ result' = NoResult
    /\ UNCHANGED <<envVars, http, loadVars, outVars, images, events, stages, prev>>

\* The arguments and environments the model draws from.
GivenQualities == {-5, 0, 1, 80, 100, 101, 150}
GivenCompressions == {-1, 0, 3, 9, 10}
GivenModes == {"panorama", "scans", "PANORAMA", "auto", ""}
Unset(texts) == {None} \cup {Some(t) : t \in texts}
Environments ==
    [PARALLEL : Unset({"1", "0"}),
     MAX_WORKERS : Unset({"2", "many"}),
     JPEG_QUALITY : Unset({" 80 ", "1", "100", "0", "150", "-5", "high"}),
     MODE : Unset({"scans", "auto"}),
     VERBOSE : Unset({"1"})]

InitConfig == InitRun /\ input_dir = Missing /\ entries = [p \in 1..MaxPaths |-> TextFile]

NextConfig ==
    \/ \E jpeg_quality \in GivenQualities, png_compression \in GivenCompressions :
         CallOutputConfig(jpeg_quality, png_compression)
    \/ \E mode \in GivenModes : CallStitchingConfig(mode)
    \/ \E environ \in Environments : CallFromEnv(environ)
    \/ ConfigReturn

SpecConfig == InitConfig /\ [][NextConfig]_vars

----------------------------------------------------------------------------
\* Properties

\* The candidate files of the directory, and the position of a candidate in
\* the lexicographic order of the candidates.
Candidates == {p \in DOMAIN entries : entries[p].is_file /\ is_supported_image(entries[p])}
Rank(p) == Cardinality({q \in Candidates : q <= p})

Last(s) == s[Len(s)]
LoadDone == pc = "done" /\ call.fn = "load_images"
ParallelBranch == call.parallel /\ Len(image_paths) > 1

\* C1: a successful load_images(parallel=True) returns one image per candidate
\* file, the element at index i being the image decoded from the i-th path
\* of the sorted candidate list, whatever order the tasks completed in.
C1_ParallelOrder ==
    (LoadDone /\ call.parallel) =>
        /\ Len(result.images) = Cardinality(Candidates)
        /\ \A i \in 1..Len(result.images) :
             LET img == result.images[i]
             IN  /\ img.src \in Candidates
                 /\ Rank(img.src) = i
                 /\ img = imread(img.src, entries[img.src])

\* C1 witness: a parallel load of three files returned after the task of the
\* last index was yielded first.
C1_Witness ==
    /\ LoadDone /\ ParallelBranch
    /\ Len(yielded) = 3
    /\ yielded[1] = 3

\* C2: with N >= 2 loadable images, a parallel and a sequential load of the
\* same directory return the same list, whatever order the tasks completed in.
C2_ParallelEqualsSequential ==
    (LoadDone /\ prev.set /\ prev.parallel # call.parallel /\ Len(image_paths) >= 2) =>
        result.images = prev.images

\* C2 witness: a parallel load whose tasks were yielded out of index order
\* returned, after a sequential load of the same directory had returned.
C2_Witness ==
    /\ LoadDone /\ ParallelBranch
    /\ prev.set /\ ~prev.parallel
    /\ yielded[1] > yielded[2]

\* C3: within one create_orthomosaic run the fractions delivered to the
\* callback never decrease, for every N >= 1.
C3_MonotoneProgress ==
    call.fn = "create_orthomosaic" =>
        \A i \in 1..(Len(events) - 1) : FracLeq(events[i].frac, events[i + 1].frac)

\* C4: in a successful create_orthomosaic run with a callback the last event
\* has fraction 1.0, and the controller delivers it only after save_image has
\* returned (the output is written).
C4_FinalEvent ==
    (call.fn = "create_orthomosaic" /\ call.cb) =>
        /\ pc = "done" =>
             /\ events # <<>>
             /\ FracEq(Last(events).frac, F_1)
             /\ Last(events).by = "controller"
        /\ \A i \in 1..Len(events) :
             (events[i].by = "controller" /\ FracEq(events[i].frac, F_1)) =>
                 /\ i = Len(events)
                 /\ Last(stages) = "save"
                 /\ out_file = stitched
                 /\ out_file # NoImage

\* C4 witness: a run over two or more images succeeded with a callback.
C4_Witness ==
    /\ pc = "done" /\ call.fn = "create_orthomosaic" /\ call.cb
    /\ Len(images) >= 2

\* The exception types each stage raises.
StageExcTypes(stage) ==
    CASE stage = "load" -> {"ValidationError", "ImageLoadError", "SecurityError"}
      [] stage = "stitch" -> {"ValidationError", "StitchingError"}
      [] stage = "save" -> {"ValidationError", "OutputError"}

C5_StageInv ==
    call.fn = "create_orthomosaic" =>
        /\ IsPrefix(stages, <<"load", "stitch", "save">>)
        /\ engine_calls <= 1
        /\ pc = "raised" =>
             /\ stages # <<>>
             /\ exc.type \in StageExcTypes(Last(stages))
             /\ exc.path # 0 =>
                  exc = load_single_image(exc.path, entries[exc.path],
                                          call.validate_security, limits).exc
             /\ result = NoResult
             /\ Last(stages) \in {"load", "stitch"} =>
                  /\ out_file = NoImage
                  /\ ~out_dir_made

\* C5: create_orthomosaic runs load, stitch, save in this order, each at most
\* once; the first failing stage ends the run with its own exception, no
\* step follows the failure, and after a failure in load or stitch nothing
\* has been written.
C5_StagesAbortOnFirstFailure ==
    /\ []C5_StageInv
    /\ [][pc # "raised" /\ (pc = "done" => call.fn # "create_orthomosaic")]_vars

\* C5 witness: a run failed in the stitch stage after a successful load.
C5_Witness ==
    /\ call.fn = "create_orthomosaic" /\ pc = "raised"
    /\ stages = <<"load", "stitch">>
    /\ exc.type = "StitchingError"

\* The yielded task that ended the as_completed loop with its exception.
FailedIndex == Last(yielded)
ParallelRaised ==
    /\ call.fn = "load_images" /\ ParallelBranch
    /\ pc = "raised" /\ yielded # <<>>

C7_InvalidModeRejected ==
    (/\ call.fn = "stitch_images"
     /\ images # <<>>
     /\ call.mode \notin {"panorama", "scans"}
     /\ pc \in {"done", "raised"}) =>
        /\ pc = "raised"
        /\ exc.type = "ValidationError"
        /\ engine_calls = 0

C9_PixelLimitEnforced ==
    (LoadDone /\ call.validate_security) =>
        \A i \in 1..Len(result.images) :
            result.images[i].width * result.images[i].height
                <= limits[1].max_image_pixels

\* The file-count limit in force for the call.
EffectiveMaxFiles ==
    IF call.limits = None THEN DEFAULT_MAX_FILES ELSE call.limits[1].max_files

\* C10: with security validation enabled, a directory with more candidates
\* than limits.max_files makes load_images raise SecurityError before any
\* task is started, any file is read and any progress event is delivered.
C10_CountCheckFirst ==
    (/\ call.fn = "load_images" /\ call.validate_security
     /\ pc \notin {"idle", "li_discover"}
     /\ input_dir = ADir) =>
        (Cardinality(Candidates) > EffectiveMaxFiles =>
            /\ pc = "raised"
            /\ exc = Exc("SecurityError", 0)
            /\ futures = <<>>
            /\ touched = {}
            /\ reads = {}
            /\ events = <<>>)

\* C10 witness: a parallel load with a callback was rejected for its count.
C10_Witness ==
    /\ call.fn = "load_images" /\ call.validate_security
    /\ call.parallel /\ call.cb
    /\ Cardinality(Candidates) > EffectiveMaxFiles
    /\ pc = "raised"

\* The directory holds no regular file with a supported extension.
NoCandidate == input_dir = ADir /\ Candidates = {}

\* C11: load_images on a directory without a regular file of a supported
\* extension raises ImageLoadError in its discovery step and never returns,
\* whatever the parallel flag, the limits and the unsupported entries are; no
\* load_images call returns an empty list.
C11_NoImagesIsAnError ==
    /\ (call.fn = "load_images" /\ NoCandidate /\ pc \notin {"idle", "li_discover"}) =>
          /\ pc = "raised"
          /\ exc = Exc("ImageLoadError", 0)
          /\ result = NoResult
          /\ touched = {}
    /\ LoadDone => result.images # <<>>

\* C11 witness: a parallel load with caller-given limits was rejected on a
\* directory holding only a text file and sub-directories.
C11_Witness ==
    /\ call.fn = "load_images" /\ NoCandidate /\ pc = "raised"
    /\ call.parallel /\ call.limits # None
    /\ \E p \in DOMAIN entries : entries[p] = TextFile
    /\ \E p \in DOMAIN entries : entries[p] = SubDir

\* C12: stitch_images called with an empty list raises ValidationError, for
\* every mode, without delivering a progress event and without calling the
\* engine.
C12_EmptyListRejected ==
    (call.fn = "stitch_images" /\ images = <<>> /\ pc # "st_enter") =>
        /\ pc = "raised"
        /\ exc = Exc("ValidationError", 0)
        /\ events = <<>>
        /\ engine_calls = 0
        /\ result = NoResult

\* C12 witness: a call with an empty list, a callback and a valid mode was
\* rejected.
C12_Witness ==
    /\ call.fn = "stitch_images" /\ images = <<>> /\ pc = "raised"
    /\ call.cb /\ call.mode = "scans"

\* A stitch_images call on two or more images with a valid mode has ended.
EngineAnswered ==
    /\ call.fn = "stitch_images" /\ Len(images) >= 2
    /\ call.mode \in {"panorama", "scans"}
    /\ pc \in {"done", "raised"}

NoCompleteEvent == \A i \in 1..Len(events) : ~FracEq(events[i].frac, F_stitched)

\* C13 as stated: an image is returned only for an OK status with an output;
\* every other answer raises StitchingError with the mapped message and the
\* raw status, and no "complete" event.
C13_FailureCarriesStatus ==
    EngineAnswered =>
        /\ pc = "done" => (engine_status = "OK" /\ result.image # NoImage)
        /\ pc = "raised" =>
             /\ exc.type = "StitchingError"
             /\ NoCompleteEvent
             /\ engine_status # "OK" =>
                  /\ exc.message = error_messages(engine_status).text
                  /\ exc.status = engine_status

\* C13 amended: an image is returned only for an OK status with an output;
\* every other answer raises StitchingError with no "complete" event. The
\* message is the mapped text of the status; the status value is in the
\* message only for a status without a mapped text; an OK status without
\* output gives the "no output" message.
C13_FailureCarriesMessage ==
    EngineAnswered =>
        /\ engine_calls = 1
        /\ pc = "done" =>
             /\ engine_status = "OK"
             /\ result.image # NoImage
             /\ result.image = Mosaic(images)
        /\ pc = "raised" =>
             /\ exc.type = "StitchingError"
             /\ result = NoResult
             /\ NoCompleteEvent
             /\ engine_status = "OK" =>
                  (exc.message = "Stitching produced no output" /\ exc.status = "")
             /\ engine_status # "OK" =>
                  /\ exc.message = error_messages(engine_status).text
                  /\ exc.status =
                       IF engine_status \in {"ERR_NEED_MORE_IMGS", "ERR_HOMOGRAPHY_EST_FAIL",
                                             "ERR_CAMERA_PARAMS_ADJUST_FAIL"}
                       THEN "" ELSE engine_status

\* C13 witness: the engine answered a homography failure to a call with a
\* callback.
C13_Witness ==
    /\ EngineAnswered /\ pc = "raised" /\ call.cb
    /\ engine_status = "ERR_HOMOGRAPHY_EST_FAIL"

Fracs(evs) == [i \in 1..Len(evs) |-> evs[i].frac]

\* C14 as stated: a successful stitch of two or more images delivers exactly
\* two events, "starting" before the engine call and "complete" after it.
C14_TwoEvents ==
    (EngineAnswered /\ pc = "done" /\ call.cb) =>
        Fracs(events) = <<F_start, F_stitched>>

\* C14 amended: a successful stitch of two or more images delivers exactly
\* three events: 0.5 and 0.6 before the engine call, 0.95 after it, and none
\* while the engine runs.
C14_ThreeEvents ==
    (call.fn = "stitch_images" /\ Len(images) >= 2 /\ call.cb) =>
        /\ pc = "st_engine" => Fracs(events) = <<F_start, F_detect>>
        /\ pc = "done" =>
             /\ Fracs(events) = <<F_start, F_detect, F_stitched>>
             /\ \A i \in 1..Len(events) : events[i].by = "stitcher"
             /\ engine_calls = 1

\* C14 witness: a stitch of three images with a callback succeeded.
C14_Witness ==
    /\ call.fn = "stitch_images" /\ Len(images) = 3 /\ call.cb
    /\ pc = "done"

FracIn(f, lo, hi) == FracLeq(lo, f) /\ FracLeq(f, hi)

\* C15: in a create_orthomosaic run every fraction lies in the band of the
\* stage that delivers it: [0, 0.5] for loading, [0.5, 0.95] for stitching,
\* [0.95, 1] for writing (the controller's first event being 0.0); no event
\* delivered before save_image is called is above 0.95.
C15_StageBands ==
    call.fn = "create_orthomosaic" =>
        \A i \in 1..Len(events) :
            LET e == events[i]
            IN  /\ FracIn(e.frac, F_0, F_1)
                /\ e.by = "loader" => FracIn(e.frac, F_0, F_start)
                /\ e.by = "stitcher" => FracIn(e.frac, F_start, F_stitched)
                /\ e.by = "controller" =>
                     (i = 1 /\ FracEq(e.frac, F_0)) \/ FracIn(e.frac, F_saving, F_1)
                /\ "save" \notin Range(stages) => FracLeq(e.frac, F_saving)

\* A load_images call with a callback that has passed discovery.
Loading == call.fn = "load_images" /\ call.cb /\ events # <<>>

\* The loads whose outcome the calling thread has taken, and those of them
\* that succeeded.
TakenLoads == IF ParallelBranch THEN Len(yielded) ELSE Cardinality(touched)
TakenImages ==
    IF ParallelBranch THEN completed
    ELSE IF pc = "done" THEN Len(result.images) ELSE Len(images)

\* C16 as stated: one completion event per load the calling thread has seen
\* complete, failed or not, the k-th of fraction k / N * 0.5.
C16_EventPerCompletion ==
    Loading =>
        /\ Len(events) = 1 + TakenLoads
        /\ \A k \in 1..(Len(events) - 1) :
             FracEq(events[k + 1].frac, Frac(k, 2 * Len(image_paths)))

\* C16 amended: one completion event per image loaded successfully, the k-th
\* of fraction k / N * 0.5, delivered when the calling thread takes the image;
\* the load that fails the batch delivers no event.
C16_EventPerSuccess ==
    Loading =>
        /\ FracEq(events[1].frac, F_0)
        /\ Len(events) = 1 + TakenImages
        /\ \A k \in 1..(Len(events) - 1) :
             FracEq(events[k + 1].frac, Frac(k, 2 * Len(image_paths)))
        /\ pc = "raised" => TakenLoads = TakenImages + 1
        /\ pc # "raised" /\ exc = NoExc => TakenLoads = TakenImages

\* C16 witness: a sequential load with a callback failed on its third file.
C16_Witness ==
    /\ Loading /\ ~call.parallel /\ pc = "raised"
    /\ Len(images) = 2

\* The handling of a POST /api/stitch request has ended.
StitchRequestEnded ==
    /\ http.req.method = "POST" /\ http.req.path = "/api/stitch"
    /\ pc \in {"hs_sent", "hs_crashed"}

\* What a client can get wrong in the body of POST /api/stitch: a body that
\* is no JSON object with a list under "images"; no images; an element that
\* is no base64 text of an image.
MalformedBody(body) == body.kind # "object" \/ body.images.kind = "number"
NoImagesGiven(body) ==
    /\ body.kind = "object"
    /\ body.images.kind \in {"absent", "null"} \/
       (body.images.kind = "list" /\ body.images.items = <<>>)
Undecodable(item) == ~item.is_str \/ item.image = NoImage
BadInput(body) ==
    \/ MalformedBody(body)
    \/ NoImagesGiven(body)
    \/ \E i \in 1..Len(body.images.items) : Undecodable(body.images.items[i])

\* C17: POST /api/stitch answers 400 for a malformed body, for no images and
\* for an image that does not decode; 422 when stitch_images raises an
\* AutoflightError; 500 for any other failure; 200 with success:true only
\* when stitching and encoding succeeded; every other response has
\* success:false and an error text.
C17_StatusCodes ==
    StitchRequestEnded =>
        LET r == http.resp
            bad == BadInput(http.req.body)
        IN  /\ r.status \in {200, 400, 422, 500}
            /\ r.status = 400 <=> bad
            /\ r.status = 422 <=> (~bad /\ IsAutoflightError(exc))
            /\ r.status = 500 => (~bad /\ ~IsAutoflightError(exc))
            /\ r.status = 200 <=> r.success = "true"
            /\ r.status = 200 =>
                 /\ exc = NoExc
                 /\ result.kind = "image"
                 /\ r.image = result.image
                 /\ r.image # NoImage
            /\ r.status # 200 => (r.success = "false" /\ r.error # "")

RequestItems == http.req.body.images.items

\* The position of the first element of items that does not decode.
FirstUndecodable(items) ==
    CHOOSE i \in 1..Len(items) :
        /\ Undecodable(items[i])
        /\ \A j \in 1..(i - 1) : ~Undecodable(items[j])

\* C18: POST /api/stitch decodes the images in request order; the first one
\* that does not decode ends the request with a 400 response naming its
\* 1-based position, no later image is decoded and stitch_images is not
\* called.
C18_FirstDecodeFailure ==
    (/\ StitchRequestEnded
     /\ http.req.body.kind = "object" /\ http.req.body.images.kind = "list"
     /\ \E i \in 1..Len(RequestItems) : Undecodable(RequestItems[i])) =>
        LET f == FirstUndecodable(RequestItems)
        IN  /\ http.resp.status = 400
            /\ http.resp.error \in {"Failed to decode image", "Could not read image"}
            /\ http.resp.index = f
            /\ images = [j \in 1..(f - 1) |-> RequestItems[j].image]
            /\ http.decoded = f
            /\ "stitch" \notin Range(stages)
            /\ engine_calls = 0

\* C19: a 200 response of POST /api/stitch reports as image_count the number
\* of images of the request and as width and height the dimensions of the
\* image stitch_images returned; for a request of one valid image these are
\* the dimensions of that image, and image_count is 1.
C19_ResponseDimensions ==
    (StitchRequestEnded /\ http.resp.status = 200) =>
        /\ http.resp.image_count = Len(RequestItems)
        /\ http.resp.width = stitched.width
        /\ http.resp.height = stitched.height
        /\ Len(RequestItems) >= 2 => stitched = Mosaic(images)
        /\ Len(RequestItems) = 1 =>
             /\ http.resp.image_count = 1
             /\ http.resp.width = RequestItems[1].image.width
             /\ http.resp.height = RequestItems[1].image.height

\* C19 witness: a request of one image, 20 wide and 10 high and sent as a
\* data URL, was answered 200.
C19_Witness ==
    /\ StitchRequestEnded /\ http.resp.status = 200
    /\ RequestItems = <<PngB>>

\* A request has been answered.
Answered == pc = "hs_sent"

\* C20: GET / and GET /index.html answer the page, or 404 when its file is
\* missing; every other GET path and every POST path but /api/stitch answers
\* 404 without decoding or stitching anything; OPTIONS answers the preflight
\* response on every path; no request but POST /api/stitch reaches the
\* stitch handler.
C20_Routes ==
    /\ (Answered /\ http.req.method = "GET") =>
         /\ http.req.path \in {"/", "/index.html"} =>
              /\ http.page => (http.resp.status = 200 /\ http.resp.type = "text/html")
              /\ ~http.page => http.resp.status = 404
         /\ http.req.path \notin {"/", "/index.html"} => http.resp.status = 404
    /\ (Answered /\ http.req.method = "POST" /\ http.req.path # "/api/stitch") =>
         http.resp.status = 404
    /\ (Answered /\ http.req.method = "OPTIONS") =>
         (http.resp.status = 204 /\ http.resp.cors)
    /\ (call.fn \in {"do_GET", "do_POST", "do_OPTIONS"} /\
        ~(http.req.method = "POST" /\ http.req.path = "/api/stitch")) =>
         /\ Answered
         /\ stages = <<>>
         /\ images = <<>>
         /\ http.decoded = 0
         /\ engine_calls = 0

\* C20 witness: a POST of two valid images to /api/stitch/ was answered 404.
C20_Witness ==
    /\ Answered /\ http.req.method = "POST" /\ http.req.path = "/api/stitch/"
    /\ http.req.body.images.items = <<PngA, PngB>>
    /\ http.resp.status = 404

\* A validator has answered the call in `call`.
ValidatorEnded(fn) == pc \in {"done", "raised"} /\ call.fn = fn

\* The call passed neither a limits object nor an explicit maximum.
NoLimitsGiven == call.limits = None /\ call.max = None

\* C21: the default limits are a read-only template: whatever callers did
\* before, also with the instance get_default_limits() returned, a call that
\* supplies no limits is checked against the documented defaults (500 MB,
\* 100 megapixels, 1000 files).
C21_DefaultsAreATemplate ==
    /\ (ValidatorEnded("validate_file_count") /\ NoLimitsGiven)
           => (pc = "raised" <=> call.count > DEFAULT_MAX_FILES)
    /\ (ValidatorEnded("validate_file_size") /\ NoLimitsGiven /\ call.file.stat_ok)
           => (pc = "raised" <=> call.file.size > DEFAULT_MAX_FILE_SIZE)
    /\ (ValidatorEnded("validate_image_dimensions") /\ NoLimitsGiven)
           => (pc = "raised" <=> call.width * call.height > DEFAULT_MAX_IMAGE_PIXELS)

\* The maximum a call is checked against: the explicit argument, else the
\* attribute of the limits object, else that of the default instance.
EffectiveMax(attr) ==
    IF call.max # None THEN call.max[1]
    ELSE IF call.limits # None THEN call.limits[1][attr]
    ELSE default_limits[attr]

\* C22: the size and count limits are inclusive: validate_file_size and
\* validate_file_count pass iff the size or count is at most the effective
\* maximum and raise SecurityError iff it is larger; an explicit max_size or
\* max_files takes precedence over the limits object.
C22_InclusiveLimits ==
    /\ (ValidatorEnded("validate_file_size") /\ call.file.stat_ok)
           => /\ pc = "done" <=> call.file.size <= EffectiveMax("max_file_size")
              /\ pc = "raised" <=> call.file.size > EffectiveMax("max_file_size")
              /\ pc = "raised" => exc.type = "SecurityError"
    /\ ValidatorEnded("validate_file_count")
           => /\ pc = "done" <=> call.count <= EffectiveMax("max_files")
              /\ pc = "raised" <=> call.count > EffectiveMax("max_files")
              /\ pc = "raised" => exc.type = "SecurityError"

\* A count at the explicit maximum passed although the limits object given
\* with it is smaller, and a size one over the explicit maximum was refused
\* although the limits object allows it.
C22_Witness ==
    \/ /\ ValidatorEnded("validate_file_count") /\ pc = "done"
       /\ call.max # None /\ call.limits # None
       /\ call.count = call.max[1] /\ call.count > call.limits[1].max_files
    \/ /\ ValidatorEnded("validate_file_size") /\ pc = "raised"
       /\ call.max # None /\ call.limits # None
       /\ call.file.size = call.max[1] + 1
       /\ call.file.size <= call.limits[1].max_file_size

\* The resolved path is the resolved base directory or lies below it.
WithinBase(path, base_dir) ==
    /\ path.resolves
    /\ base_dir[1].resolves
    /\ Len(base_dir[1].target) <= Len(path.target)
    /\ SubSeq(path.target, 1, Len(base_dir[1].target)) = base_dir[1].target

\* C23: validate_path_security(path, base_dir) returns the resolved path iff
\* it equals or lies below the resolved base_dir and otherwise raises
\* SecurityError; every failure of the call, a path or base directory that
\* cannot be resolved included, is reported as SecurityError.
C23_PathSecurity ==
    ValidatorEnded("validate_path_security")
        => /\ call.base_dir # None
                  => (pc = "done" <=> WithinBase(call.path, call.base_dir))
           /\ pc = "done" => result.resolved = Some(call.path.target)
           /\ pc = "raised" => exc.type = "SecurityError"

\* C24: validate_path raises ValidationError whenever the existence check
\* fails (must_exist and the path is absent), the type check fails
\* (must_be_dir and the path is not a directory) or the path cannot be
\* resolved, for every combination of the two flags, and never lets
\* SecurityError escape.
C24_PathValidation ==
    ValidatorEnded("validate_path")
        => /\ (call.must_exist /\ ~call.path.exists) => exc.type = "ValidationError"
           /\ (call.must_be_dir /\ ~call.path.is_dir) => exc.type = "ValidationError"
           /\ ~call.path.resolves => exc.type = "ValidationError"
           /\ exc.type # "SecurityError"

\* A call of save_image has just ended.
SaveImageEnded == pc \in {"done", "raised"} /\ call.fn = "save_image"

\* The image or a parameter of the call is invalid.
InvalidSaveArguments(c) ==
    \/ c.image = NoImage
    \/ c.image.width * c.image.height = 0
    \/ c.quality < 1 \/ c.quality > 100
    \/ c.png_compression < 0 \/ c.png_compression > 9

\* The directory can be had and the encoder and the write succeed.
Writable(c) ==
    /\ c.create_dirs => c.env.mkdir_ok
    /\ ~c.create_dirs => c.env.parent_exists
    /\ c.env.encode_ok
    /\ c.env.write_ok

\* C25: save_image validates its arguments before any filesystem effect: for a
\* None or empty image, a quality outside 1..100 or a png_compression outside
\* 0..9 it raises ValidationError and creates no directory and creates or
\* modifies no file, for every output suffix, .html included; for valid
\* arguments and a writable path it succeeds and the file exists afterwards.
C25_ValidationBeforeEffects ==
    [][(pc = "idle" /\ pc' # "idle" /\ call'.fn = "save_image")
          => /\ InvalidSaveArguments(call')
                    => /\ pc' = "raised"
                       /\ exc'.type = "ValidationError"
                       /\ UNCHANGED <<out_dir_made, out_file, out_content>>
             /\ (~InvalidSaveArguments(call') /\ Writable(call'))
                    => /\ pc' = "done"
                       /\ out_file' = call'.image
                       /\ out_content' # NoContent]_vars

\* A call with quality 150 and an .html path into a directory that does not
\* exist was refused and left no directory and no file.
C25_Witness ==
    /\ SaveImageEnded
    /\ pc = "raised"
    /\ call.quality = 150
    /\ call.suffix \in {".html", ".HTML"}
    /\ call.create_dirs /\ ~call.env.parent_exists /\ call.env.mkdir_ok
    /\ call.image # NoImage /\ ~IsEmptyImage(call.image)
    /\ ~out_dir_made
    /\ out_content = NoContent

\* The <img> elements of a document whose source is a data:image/png URL.
PngImgTags(doc) ==
    {i \in 1..Len(doc) :
        /\ doc[i].tag = "img"
        /\ doc[i].src # None
        /\ doc[i].src[1].scheme = "data"
        /\ doc[i].src[1].mime = "image/png"}

\* C30: writing a non-empty image to a path with suffix .html and then
\* decoding the base64 payload of the single data:image/png <img> tag
\* reproduces the original pixels exactly, whatever quality and
\* png_compression were passed to save_image.
C30_HtmlRoundTrip ==
    (SaveImageEnded /\ pc = "done" /\ call.suffix \in {".html", ".HTML"})
        => /\ out_content.format = "html"
           /\ Cardinality(PngImgTags(out_content.doc)) = 1
           /\ \A i \in PngImgTags(out_content.doc) :
                  LET payload == out_content.doc[i].src[1].payload
                  IN  /\ imdecode(b64decode(payload)) = call.image
                      /\ b64decode(payload).params = <<>>
           /\ \A q \in 1..100, c \in 0..9 :
                  out_content = save_image(call.image, call.suffix, call.create_dirs,
                                           q, c, call.env).content

\* An .HTML file was written by a call with quality 1 and png_compression 9.
C30_Witness ==
    /\ SaveImageEnded
    /\ pc = "done"
    /\ call.suffix = ".HTML"
    /\ call.quality = 1
    /\ call.png_compression = 9
    /\ out_content # NoContent
    /\ call.image = Image(2, 20, 10)

\* The entries of the directory that are image files cv2.imread can decode.
DecodableEntries == {p \in DOMAIN entries : entries[p].is_file /\ entries[p].decodable}

\* C27: create_orthomosaic returns an OrthomosaicResult only after load,
\* stitch and save have all succeeded; its image_count is the number of
\* images loaded from the directory and its size is (width, height) of the
\* stitched image that was written to output_path.
C27_ResultOnFullSuccess ==
    call.fn = "create_orthomosaic"
        => /\ result.kind = "OrthomosaicResult" <=> pc = "done"
           /\ pc = "done"
                  => /\ stages = <<"load", "stitch", "save">>
                     /\ exc = NoExc
                     /\ result.image_count = Len(images)
                     /\ result.image_count = Cardinality(DecodableEntries)
                     /\ \A i \in 1..Len(images) : images[i].src \in DecodableEntries
                     /\ stitched # NoImage
                     /\ out_file = stitched
                     /\ out_content # NoContent
                     /\ result.size = <<out_file.width, out_file.height>>

\* A run over two or more images returned a result whose width and height
\* differ.
C27_Witness ==
    /\ call.fn = "create_orthomosaic"
    /\ pc = "done"
    /\ result.image_count >= 2
    /\ result.size[1] # result.size[2]

\* The spellings of the five supported extensions among the suffixes that
\* occur, and suffixes that are none of them in any case.
SupportedSpellings == {".jpg", ".JPG", ".jpeg", ".png", ".PNG", ".tif", ".Tif", ".tiff"}
OtherSuffixes == {".txt", ".TXT", ".html", ".HTML", ".pdf", ".gif", ".jpg2", ""}

\* The regular files of the directory whose suffix is a supported one.
SupportedFiles == {p \in DOMAIN entries : entries[p].is_file /\ entries[p].suffix \in SupportedSpellings}

\* C29: is_supported_image is case-insensitive in the extension and returns
\* true exactly for suffixes that, lower-cased, are .jpg, .jpeg, .png, .tif or
\* .tiff; load_images considers only the regular files for which it returns
\* true.
C29_SupportedImages ==
    /\ \A s \in SupportedSpellings : is_supported_image(File(s, TRUE, TRUE, 1, TRUE, 1, 1))
    /\ \A s \in OtherSuffixes : ~is_supported_image(File(s, TRUE, TRUE, 1, TRUE, 1, 1))
    /\ (call.fn = "load_images" /\ input_dir = ADir /\ pc # "li_discover")
           => /\ Range(image_paths) = SupportedFiles
              /\ Len(image_paths) = Cardinality(SupportedFiles)
              /\ touched \subseteq SupportedFiles
              /\ \A i \in 1..Len(images) : images[i].src \in SupportedFiles

\* A load returned the upper-case .PNG file of a directory that also holds a
\* text file or a subdirectory named like an image.
C29_Witness ==
    /\ call.fn = "load_images"
    /\ pc = "done"
    /\ \E p \in SupportedFiles : entries[p].suffix = ".PNG"
    /\ \E p \in DOMAIN entries : p \notin SupportedFiles
    /\ Len(images) = Cardinality(SupportedFiles)

\* C28: cli.run without --dry-run and orthomosaic.main return 0 iff
\* create_orthomosaic returned a result, and return a non-zero status after
\* printing the error to the error stream for every exception of the
\* pipeline, AutoflightError or not; no exception escapes to the caller.
C28_ExitCodes ==
    /\ cli.escaped = NoExc
    /\ pc = "cli_exit"
           => /\ cli.code # None
              /\ cli.code = Some(0) <=> result.kind = "OrthomosaicResult"
              /\ cli.code # Some(0) => (exc # NoExc /\ cli.stderr = <<exc>>)
              /\ cli.code = Some(0) => cli.stderr = <<>>

\* Both calls of a pair have ended and their loads completed in the same order.
TwinEnded == twin.set /\ pc \in {"done", "raised"} /\ yielded = twin.yielded

\* C26: for the same inputs and filesystem, load_images, stitch_images and
\* create_orthomosaic return the same result or raise the same error with
\* and without a progress callback; a callback changes only the events it
\* receives.
C26_CallbackIndependence ==
    /\ TwinEnded => Outcome = twin.outcome
    /\ ~call.cb => events = <<>>

\* A pipeline run with a callback over two or more images loaded in parallel
\* succeeded after the same run without a callback.
C26_Witness ==
    /\ TwinEnded
    /\ call.fn = "create_orthomosaic"
    /\ call.cb /\ ~twin.call.cb
    /\ call.parallel
    /\ Len(images) >= 2
    /\ pc = "done"
    /\ events # <<>>

\* The slot array of a parallel load exists: the call is in or past the
\* as_completed loop.
SlotsInUse ==
    /\ call.fn \in {"load_images", "create_orthomosaic"}
    /\ ParallelBranch
    /\ pc \in {"li_par", "li_exit", "done"}

\* Slot i holds the image of the task dispatched for index i, and is filled
\* exactly when that task's result has been taken.
SlotsMatchTasks ==
    SlotsInUse /\ call.fn = "load_images"
        => /\ Len(images_by_index) = Len(image_paths)
           /\ \A k, l \in 1..Len(yielded) : yielded[k] = yielded[l] => k = l
           /\ \A i \in 1..Len(images_by_index) :
                  /\ images_by_index[i] # NoImage
                         <=> (i \in Range(yielded) /\ futures[i].out.exc = NoExc)
                  /\ images_by_index[i] # NoImage
                         => /\ images_by_index[i] = futures[i].out.image
                            /\ images_by_index[i].src = image_paths[i]
           /\ pc = "done" => /\ \A i \in 1..Len(images_by_index) :
                                    images_by_index[i] # NoImage
                             /\ result.images = images_by_index

\* A step of the loop writes at most the one slot of the future it takes, and
\* only while that slot is empty.
SlotWrittenOnce ==
    (pc = "li_par" /\ call.fn = "load_images")
        => \A i \in 1..Len(images_by_index) :
               images_by_index'[i] # images_by_index[i]
                   => /\ images_by_index[i] = NoImage
                      /\ yielded' = Append(yielded, i)
                      /\ images_by_index'[i] = futures[i].out.image

\* C31: in a parallel load_images the slot array has one slot per canonical
\* index; each slot is written at most once, by the one loop that takes the
\* results, with the result of the task dispatched for that index; on
\* successful return every slot has been written exactly once.
C31_SlotsWrittenOnce == []SlotsMatchTasks /\ [][SlotWrittenOnce]_vars

\* A parallel load returned after its results were taken out of index order.
C31_Witness ==
    /\ LoadDone /\ ParallelBranch
    /\ Len(yielded) = Len(image_paths)
    /\ yielded[1] > yielded[2]
    /\ \A i \in 1..Len(images_by_index) : images_by_index[i].src = image_paths[i]

\* The worker count the caller configured: --workers when the call came
\* through cli.run, the max_workers argument of load_images otherwise.
ConfiguredWorkers == IF cli.entry = "run" THEN cli.workers ELSE call.max_workers

\* C32: with parallel loading and N > 1 exactly one load task is dispatched
\* per candidate file, and at no time are more load tasks executing than the
\* worker count the caller configured (max_workers of load_images; --workers
\* when run through the command line).
C32_WorkerBound ==
    (ParallelBranch /\ pc \in {"li_par", "li_exit"})
        => /\ Len(futures) = Len(image_paths)
           /\ Cardinality(Running) <= ConfiguredWorkers

\* The call runs the sequential loop of load_images.
SequentialBranch ==
    /\ call.fn = "load_images"
    /\ pc \in {"li_seq", "done", "raised"}
    /\ image_paths # <<>>
    /\ ~ParallelBranch

\* The files entered so far are the first k of the canonical order, each
\* read at most inside its own load, and the loop stands at a failure at k or
\* behind k loaded images (a call refused for its file count entered none).
ReadPrefix ==
    SequentialBranch =>
        LET k == Cardinality(touched)
        IN  /\ touched = {image_paths[j] : j \in 1..k}
            /\ reads \subseteq touched
            /\ futures = <<>>
            /\ IF pc = "raised" /\ touched # {}
               THEN /\ k = Len(images) + 1
                    /\ exc.path = image_paths[k]
                    /\ \A j \in 1..Len(image_paths) :
                           j > k => image_paths[j] \notin touched \cup reads
               ELSE k = Len(images)
            /\ \A j \in 1..Len(images) : images[j].src = image_paths[j]

\* A step of the sequential loop enters exactly the next file of the
\* canonical order, and none once the call has ended.
OneFileAtATime ==
    (call.fn = "load_images" /\ pc \in {"li_seq", "done", "raised"} /\ ~ParallelBranch)
        => \/ touched' = touched /\ reads' = reads
           \/ /\ pc = "li_seq"
              /\ touched' = touched \cup {image_paths[Cardinality(touched) + 1]}
              /\ reads' \subseteq reads \cup {image_paths[Cardinality(touched) + 1]}
           \/ pc' = "idle"

\* C33: with parallel loading disabled or a single candidate, load_images
\* reads the files one at a time in canonical order, and a failure at index k
\* ends the call with no file of a greater index read.
C33_SequentialOrder == []ReadPrefix /\ [][OneFileAtATime]_vars

\* A sequential call over three candidates failed at the second: the first
\* two were entered, the third never.
C33_Witness ==
    /\ SequentialBranch
    /\ pc = "raised"
    /\ Len(image_paths) = 3
    /\ Len(images) = 1
    /\ touched = {image_paths[1], image_paths[2]}

\* The limits a call of validate_image_file works with.
ImageFileLimits == IF call.limits = None THEN default_limits ELSE call.limits[1]

\* One of the security validations of the validate_image_file call fails:
\* the path does not resolve, the file is over the size limit, or the
\* decoded image is over the pixel limit and the dimension check was asked for.
ImageFileCheckFails ==
    \/ (~call.path.resolves /\ call.path.error \in {"OSError", "RuntimeError"})
    \/ (call.path.resolves /\ call.file.stat_ok
            /\ call.file.size > ImageFileLimits.max_file_size)
    \/ (call.path.resolves /\ call.file.stat_ok /\ call.check_dimensions
            /\ call.file.decodable
            /\ call.file.width * call.file.height > ImageFileLimits.max_image_pixels)

\* C34: validate_image_file raises SecurityError whenever one of its security
\* validations fails, the pixel limit of the decoded image included when
\* check_dimensions is set.
C34_SecurityErrorOnAnyFailure ==
    (ValidatorEnded("validate_image_file") /\ ImageFileCheckFails)
        => (pc = "raised" /\ exc.type = "SecurityError")

\* A response is written to the connection at most once.
RespondsOnce == http'.resp # http.resp => http.resp = NoResponse

\* A POST /api/stitch whose handling ended was answered with one of the four
\* statuses.
StitchAnswered ==
    StitchRequestEnded =>
        /\ pc = "hs_sent"
        /\ http.resp.status \in {200, 400, 422, 500}

\* C35: every POST /api/stitch, whatever its body, receives exactly one
\* response with status 200, 400, 422 or 500; the handler never ends without
\* responding and never responds twice.
C35_ExactlyOneResponse == []StitchAnswered /\ [][RespondsOnce]_vars

\* Handlers answer at most once, and a POST /api/stitch whose body is a JSON
\* object with no number under "images" and only strings in its list is
\* answered with one of the four statuses.
WellTypedStitchAnswered ==
    /\ [](StitchRequestEnded
            /\ http.req.body.kind # "non_object"
            /\ (http.req.body.kind = "object" =>
                  /\ http.req.body.images.kind # "number"
                  /\ (http.req.body.images.kind = "list" =>
                        \A i \in 1..Len(http.req.body.images.items) :
                            http.req.body.images.items[i].is_str))
          => (pc = "hs_sent" /\ http.resp.status \in {200, 400, 422, 500}))
    /\ [][RespondsOnce]_vars

\* The callback of the run in progress has received the fraction 1.0.
CompletionDelivered == \E i \in 1..Len(events) : FracEq(events[i].frac, F_1)

\* C36: in a create_orthomosaic run the fraction 1.0 is delivered only if the
\* run succeeds: once the callback has received 1.0 the output is written and
\* the call returns its result, and a run that raises never delivered 1.0.
C36_CompletionOnlyOnSuccess ==
    (call.fn = "create_orthomosaic" /\ CompletionDelivered) =>
        /\ pc = "done"
        /\ result.kind = "OrthomosaicResult"
        /\ Last(stages) = "save"
        /\ out_file = stitched
        /\ out_file # NoImage

\* The same for runs whose load yielded two or more images.
CompletionOnlyOnSuccessOfMany ==
    (call.fn = "create_orthomosaic" /\ CompletionDelivered /\ Len(images) >= 2) =>
        /\ pc = "done"
        /\ result.kind = "OrthomosaicResult"
        /\ Last(stages) = "save"
        /\ out_file = stitched
        /\ out_file # NoImage

\* A run over a single image raised in save_image after 1.0 was delivered.
RaisedAfterCompletion ==
    call.fn = "create_orthomosaic" /\ pc = "raised" /\ CompletionDelivered

\* The outcome of loading the candidate of canonical index j in this call.
LoadOutcome(j) ==
    load_single_image(image_paths[j], entries[image_paths[j]], call.validate_security, limits)

\* The canonical indices whose file fails to load, and the lowest of them.
FailingIndices == {j \in 1..Len(image_paths) : LoadOutcome(j).exc # NoExc}
LowestFailing == CHOOSE j \in FailingIndices : \A k \in FailingIndices : j <= k

\* A load_images call ended with the failure of a load.
LoadFailed == call.fn = "load_images" /\ pc = "raised" /\ touched # {}

\* C37: for a directory in which files fail to load, load_images raises the
\* failure of the lowest canonical index, type and path, with parallel loading
\* under every interleaving of completions as with sequential loading.
C37_SameFailureAsSequential ==
    LoadFailed =>
        /\ FailingIndices # {}
        /\ exc = LoadOutcome(LowestFailing).exc

\* The same for sequential calls and for directories with one failing file.
LowestFailureWhenUnambiguous ==
    (LoadFailed /\ (~ParallelBranch \/ Cardinality(FailingIndices) = 1)) =>
        /\ FailingIndices # {}
        /\ exc = LoadOutcome(LowestFailing).exc

\* A parallel call raises the failure of some failing file, the one the
\* calling thread took first.
SomeFailureRaised ==
    (LoadFailed /\ ParallelBranch) =>
        /\ FailedIndex \in FailingIndices
        /\ exc = LoadOutcome(FailedIndex).exc
        /\ \A i \in 1..(Len(yielded) - 1) : yielded[i] \notin FailingIndices

\* The calling thread of a parallel load_images has observed a failure and
\* is leaving the pool.
FailureObserved == call.fn = "load_images" /\ pc = "li_exit"

\* After the failure no pending task starts.
NoStartAfterFailure ==
    FailureObserved =>
        \A i \in 1..Len(futures) :
            futures[i].state = "pending" => futures'[i].state = "pending"

\* After the failure no progress event is delivered, and the call raises
\* only when no task is executing.
QuietAfterFailure ==
    FailureObserved =>
        /\ events' = events
        /\ pc' = "raised" => (Running = {} /\ exc' = exc)

\* C38: in parallel load_images, once the first load failure has been
\* observed no task that has not started is started and no further progress
\* event is emitted; only the tasks already executing run to completion
\* before the call raises.
C38_AbortOnFirstFailure == [][NoStartAfterFailure /\ QuietAfterFailure]_vars

\* The part of C38 about events and about the moment of the raise.
NoEventAfterFailure == [][QuietAfterFailure]_vars

\* When the call raises, every task submitted has run to its end.
AllTasksRunBeforeRaise ==
    (call.fn = "load_images" /\ ParallelBranch /\ pc = "raised" /\ yielded # <<>>) =>
        \A i \in 1..Len(futures) : futures[i].state = "done"

\* The ranges config.py declares for its fields.
QualityInRange(q) == 1 <= q /\ q <= 100
CompressionInRange(c) == 0 <= c /\ c <= 9
ModeValid(m) == m \in {"panorama", "scans"}

\* A call of the configuration interface handed out an instance.
ConfigMade(fn) == pc = "done" /\ call.fn = fn
ConfigCallEnded(fn) == pc \in {"done", "raised"} /\ call.fn = fn

\* The constructors refuse exactly the out-of-range values, with ValueError,
\* and hand out what they were given otherwise.
ConstructorsValidate ==
    /\ ConfigCallEnded("OutputConfig") =>
         /\ pc = "raised" <=> ~(QualityInRange(call.jpeg_quality)
                                  /\ CompressionInRange(call.png_compression))
         /\ pc = "raised" => exc.type = "ValueError"
         /\ pc = "done" => /\ result.config.jpeg_quality = call.jpeg_quality
                           /\ result.config.png_compression = call.png_compression
    /\ ConfigCallEnded("StitchingConfig") =>
         /\ pc = "raised" <=> ~ModeValid(call.mode)
         /\ pc = "raised" => exc.type = "ValueError"
         /\ pc = "done" => result.config.mode = call.mode

\* The configuration from_env returned is within the ranges.
FromEnvInRange ==
    ConfigMade("from_env") =>
        /\ QualityInRange(result.config.output.jpeg_quality)
        /\ CompressionInRange(result.config.output.png_compression)
        /\ ModeValid(result.config.stitching.mode)

\* C39: every OutputConfig and StitchingConfig obtained through the
\* configuration interface has 1 <= jpeg_quality <= 100,
\* 0 <= png_compression <= 9 and a mode of panorama or scans: construction
\* with a value out of range raises ValueError, and AutoflightConfig.from_env
\* never returns a configuration outside these ranges, whatever the
\* AUTOFLIGHT_* variables hold.
C39_ConfigRanges == ConstructorsValidate /\ FromEnvInRange

\* from_env takes the text of each variable that is set as it is: the
\* quality is int() of AUTOFLIGHT_JPEG_QUALITY and the mode the text of
\* AUTOFLIGHT_MODE, the defaults otherwise; it raises ValueError exactly when
\* an int() fails.
FromEnvTakesValues ==
    ConfigCallEnded("from_env") =>
        LET e == call.environ
            bad(v) == v # None /\ int(v[1]) = None
        IN  /\ pc = "raised" <=> (bad(e.MAX_WORKERS) \/ bad(e.JPEG_QUALITY))
            /\ pc = "done" =>
                 /\ result.config.output.jpeg_quality =
                        IF e.JPEG_QUALITY = None THEN DEFAULT_QUALITY
                        ELSE int(e.JPEG_QUALITY[1])[1]
                 /\ result.config.stitching.mode =
                        IF e.MODE = None THEN "panorama" ELSE e.MODE[1]
                 /\ result.config.output.png_compression = DEFAULT_PNG_COMPRESSION

====
